---- MODULE Spec2Model ----
(***************************************************************************)
(* A model of the HDP 2.0.6 stack advisor (HDP206StackAdvisor,             *)
(* stack_advisor.py): cluster summary, recommenders and validators.        *)
(*                                                                         *)
(* Python values are represented as follows.                               *)
(*   - a str is a sequence of one-character strings (so that the regular   *)
(*     expressions, startswith, lower and int() of the source can be       *)
(*     computed); dictionary keys and enumerated names, which the source   *)
(*     only compares for equality, are TLA+ strings;                       *)
(*   - a dict is a function whose DOMAIN is the set of its keys;           *)
(*   - a list is a sequence;                                               *)
(*   - the number None returned by to_number is NoneNum (-1): to_number    *)
(*     never returns a negative number and Python 2 orders None below      *)
(*     every number;                                                       *)
(*   - a float that is a quotient of two integers is the record            *)
(*     [num, den] (den > 0);                                               *)
(*   - a raised exception is recorded in the variable raised ("" when      *)
(*     the operation returned normally).                                   *)
(***************************************************************************)
EXTENDS Integers, Sequences, FiniteSets, TLC

VARIABLES
  login_defs,      \* the file /etc/login.defs: whether it exists, and its lines
  hosts,           \* the host inventory: hosts["items"]
  services,        \* the services payload (topology, live configurations, changed-configurations)
  clusterData,     \* the cluster profile returned by getConfigurationClusterSummary
  configurations,  \* the recommended configuration tree the recommenders write
  items,           \* the list of validation findings
  ret,             \* the value returned by the operation of a single-function specification
  raised,          \* the exception that ended the operation, "" if none
  pc               \* position of the request

vars == <<login_defs, hosts, services, clusterData, configurations, items, ret, raised, pc>>

\* no file of that path
NoFile == [exists |-> FALSE]

(***************************************************************************)
(* Generic helpers                                                         *)
(***************************************************************************)
Min(a, b) == IF a <= b THEN a ELSE b
Max(a, b) == IF a >= b THEN a ELSE b

Range(s) == {s[i] : i \in 1..Len(s)}

RECURSIVE SeqSum(_)
SeqSum(s) == IF s = <<>> THEN 0 ELSE Head(s) + SeqSum(Tail(s))

\* All sequences over S of length 0..n
SeqsUpTo(S, n) == UNION {[1..k -> S] : k \in 0..n}

\* The permutations of a finite set, as sequences
Perms(S) == {p \in [1..Cardinality(S) -> S] : \A x \in S : \E i \in DOMAIN p : p[i] = x}

(***************************************************************************)
(* Python str                                                              *)
(***************************************************************************)
DigitChars == <<"0", "1", "2", "3", "4", "5", "6", "7", "8", "9">>
IsDigit(c) == c \in Range(DigitChars)
DigitVal(c) == (CHOOSE i \in 1..10 : DigitChars[i] = c) - 1

\* str(n) for an int n
RECURSIVE strNat(_)
strNat(n) == IF n < 10 THEN <<DigitChars[n + 1]>>
             ELSE strNat(n \div 10) \o <<DigitChars[(n % 10) + 1]>>
str(n) == IF n < 0 THEN <<"-">> \o strNat(-n) ELSE strNat(n)

\* int(s) for a str of digits only
RECURSIVE intDigits(_)
intDigits(s) == IF s = <<>> THEN 0
                ELSE intDigits(SubSeq(s, 1, Len(s) - 1)) * 10 + DigitVal(s[Len(s)])

NoneNum == -1

StartsWith(s, p) == Len(s) >= Len(p) /\ SubSeq(s, 1, Len(p)) = p

UpperChars == <<"A", "B", "C", "D", "E", "F", "G", "H", "I", "J", "K", "L", "M",
                "N", "O", "P", "Q", "R", "S", "T", "U", "V", "W", "X", "Y", "Z">>
LowerChars == <<"a", "b", "c", "d", "e", "f", "g", "h", "i", "j", "k", "l", "m",
                "n", "o", "p", "q", "r", "s", "t", "u", "v", "w", "x", "y", "z">>
LowerChar(c) ==
  IF c \in Range(UpperChars)
  THEN LowerChars[CHOOSE i \in 1..26 : UpperChars[i] = c]
  ELSE c
lower(s) == [i \in 1..Len(s) |-> LowerChar(s[i])]

\* to_number(s): int(re.sub("\D", "", s)), None on ValueError (no digit left)
to_numberMutNoStrip(s) ==
  IF s # <<>> /\ \A i \in 1..Len(s) : IsDigit(s[i]) THEN intDigits(s) ELSE NoneNum
to_number(s) ==
  LET d == SelectSeq(s, IsDigit)
  IN  IF d = <<>> THEN NoneNum ELSE intDigits(d)

(***************************************************************************)
(* Topology lookups                                                        *)
(***************************************************************************)
\* [service["StackServices"]["service_name"] for service in services["services"]]
serviceNames(svcs) == [i \in 1..Len(svcs.services) |-> svcs.services[i].service_name]

\* getHostsWithComponent: the inventory hosts, in inventory order, whose name is
\* among the hostnames of the first component so named of the first service so named
getHostsWithComponent(serviceName, componentName, svcs, hostItems) ==
  IF serviceName \in Range(serviceNames(svcs))
  THEN LET service == SelectSeq(svcs.services, LAMBDA e : e.service_name = serviceName)[1]
           components == SelectSeq(service.components,
                                   LAMBDA c : c.component_name = componentName)
       IN  IF Len(components) > 0 /\ Len(components[1].hostnames) > 0
           THEN SelectSeq(hostItems,
                          LAMBDA h : h.host_name \in Range(components[1].hostnames))
           ELSE <<>>
  ELSE <<>>

(***************************************************************************)
(* getConfigurationClusterSummary                                          *)
(***************************************************************************)
\* A dict literal whose keys are conditions, read at key 1 (= True): a later
\* entry with an equal key replaces an earlier one, so the value read is that
\* of the last true condition; KeyError when no condition is true.
TrueKeys(conds) == {i \in 1..Len(conds) : conds[i]}
BoolDictHasTrue(conds) == TrueKeys(conds) # {}
BoolDictAtTrue(conds, vals) ==
  vals[CHOOSE i \in TrueKeys(conds) : \A j \in TrueKeys(conds) : j <= i]

ramRecommendations ==
  << [os |-> 1,  hbase |-> 1],  [os |-> 2,  hbase |-> 1],  [os |-> 2,  hbase |-> 2],
     [os |-> 4,  hbase |-> 4],  [os |-> 6,  hbase |-> 8],  [os |-> 8,  hbase |-> 8],
     [os |-> 8,  hbase |-> 8],  [os |-> 12, hbase |-> 16], [os |-> 24, hbase |-> 24],
     [os |-> 32, hbase |-> 32], [os |-> 64, hbase |-> 64] >>

\* the second bucket without its lower bound
ramIndexCondsMutOverlap(ram) ==
  << ram <= 4, ram <= 8, 8 < ram /\ ram <= 16, 16 < ram /\ ram <= 24,
     24 < ram /\ ram <= 48, 48 < ram /\ ram <= 64, 64 < ram /\ ram <= 72,
     72 < ram /\ ram <= 96, 96 < ram /\ ram <= 128, 128 < ram /\ ram <= 256,
     256 < ram >>
ramIndexConds(ram) ==
  << ram <= 4, 4 < ram /\ ram <= 8, 8 < ram /\ ram <= 16, 16 < ram /\ ram <= 24,
     24 < ram /\ ram <= 48, 48 < ram /\ ram <= 64, 64 < ram /\ ram <= 72,
     72 < ram /\ ram <= 96, 96 < ram /\ ram <= 128, 128 < ram /\ ram <= 256,
     256 < ram >>

minContainerSizeConds(ram) ==
  << ram <= 4, 4 < ram /\ ram <= 8, 8 < ram /\ ram <= 24, 24 < ram >>
minContainerSizes == <<256, 512, 1024, 2048>>

leastMemoryHostMutFirst(nodeManagerHosts) == nodeManagerHosts[1]
\* The reference host: the first NODEMANAGER host of least total_mem, or else
\* the first host of the inventory
leastMemoryHost(nodeManagerHosts) ==
  nodeManagerHosts[CHOOSE i \in 1..Len(nodeManagerHosts) :
     /\ \A j \in 1..Len(nodeManagerHosts) :
           nodeManagerHosts[j].total_mem >= nodeManagerHosts[i].total_mem
     /\ \A j \in 1..(i - 1) :
           nodeManagerHosts[j].total_mem > nodeManagerHosts[i].total_mem]

\* ceil(1.8 * disk)
ceil18(disk) == (18 * disk + 9) \div 10

\* max(3, min(2 * cpu, min(ceil(1.8 * disk), totalAvailableRam / minContainerSize)));
\* every operand is a whole number, so round() changes nothing
containersMutFloorTwo(cpu, disk, totalAvailableRam, minContainerSize) ==
  Max(2, Min(2 * cpu, Min(ceil18(disk), totalAvailableRam \div minContainerSize)))
containersOf(cpu, disk, totalAvailableRam, minContainerSize) ==
  Max(3, Min(2 * cpu, Min(ceil18(disk), totalAvailableRam \div minContainerSize)))

\* max(512, totalAvailableRam * 1024)
totalAvailableRamMutNoFloor(ram, reservedRam, hbaseRam, hBaseInstalled) ==
  (ram - reservedRam - (IF hBaseInstalled THEN hbaseRam ELSE 0)) * 1024
totalAvailableRamOf(ram, reservedRam, hbaseRam, hBaseInstalled) ==
  Max(512, (ram - reservedRam - (IF hBaseInstalled THEN hbaseRam ELSE 0)) * 1024)

\* abs(totalAvailableRam / containers), a float; above 1024 it is cut to a
\* multiple of 512
Rat(n, d) == [num |-> n, den |-> d]
RatFloor(q) == q.num \div q.den
RatGt(q, n) == q.num > n * q.den
ramPerContainerOfMutRoundUp(totalAvailableRam, containers) ==
  LET q == Rat(totalAvailableRam, containers)
  IN  IF RatGt(q, 1024) THEN Rat(((RatFloor(q) + 511) \div 512) * 512, 1) ELSE q
ramPerContainerOf(totalAvailableRam, containers) ==
  LET q == Rat(totalAvailableRam, containers)
  IN  IF RatGt(q, 1024) THEN Rat((RatFloor(q) \div 512) * 512, 1) ELSE q

clusterHost(svcs, hostItems) ==
  LET nodeManagerHosts == getHostsWithComponent("YARN", "NODEMANAGER", svcs, hostItems)
  IN  IF Len(nodeManagerHosts) > 0 THEN leastMemoryHost(nodeManagerHosts)
      ELSE hostItems[1]

summaryRaises(hostItems, svcs) ==
  LET ram == IF Len(hostItems) > 0
             THEN clusterHost(svcs, hostItems).total_mem \div (1024 * 1024) ELSE 0
  IN  ~BoolDictHasTrue(ramIndexConds(ram)) \/ ~BoolDictHasTrue(minContainerSizeConds(ram))

getConfigurationClusterSummary(servicesList, hostItems, components, svcs) ==
  LET hBaseInstalled == "HBASE" \in Range(servicesList)
      hasHosts == Len(hostItems) > 0
      nodeManagerHosts == getHostsWithComponent("YARN", "NODEMANAGER", svcs, hostItems)
      host == clusterHost(svcs, hostItems)
      cpu == IF hasHosts THEN host.cpu_count ELSE 0
      disk == IF hasHosts THEN Len(host.disk_info) ELSE 0
      ram == IF hasHosts THEN host.total_mem \div (1024 * 1024) ELSE 0
      rec == BoolDictAtTrue(ramIndexConds(ram), ramRecommendations)
      minContainerSize == BoolDictAtTrue(minContainerSizeConds(ram), minContainerSizes)
      totalAvailableRam == totalAvailableRamOf(ram, rec.os, rec.hbase, hBaseInstalled)
      containers == containersOf(cpu, disk, totalAvailableRam, minContainerSize)
      ramPerContainer == ramPerContainerOf(totalAvailableRam, containers)
      mapMemory == RatFloor(ramPerContainer)
      base == [cpu |-> cpu, disk |-> disk, ram |-> ram,
               hBaseInstalled |-> hBaseInstalled, components |-> components,
               reservedRam |-> rec.os, hbaseRam |-> rec.hbase,
               minContainerSize |-> minContainerSize,
               totalAvailableRam |-> totalAvailableRam,
               containers |-> containers,
               ramPerContainer |-> ramPerContainer,
               mapMemory |-> mapMemory,
               reduceMemory |-> ramPerContainer,
               \* max(mapMemory, reduceMemory)
               amMemory |-> IF RatGt(ramPerContainer, mapMemory)
                            THEN ramPerContainer ELSE Rat(mapMemory, 1)]
      withRef == IF hasHosts THEN base @@ ("referenceHost" :> host) ELSE base
  IN  IF hasHosts /\ Len(nodeManagerHosts) > 0
      THEN withRef @@ ("referenceNodeManagerHost" :> host)
      ELSE withRef

(***************************************************************************)
(* Inputs of the cluster summary                                           *)
(***************************************************************************)
MaxHosts == 2

HostNames == <<"h1", "h2", "h3", "h4">>

KBperGB == 1048576

\* total_mem (KB) on both sides of every bucket boundary of the two tables
RamGBChoices == {0, 1, 2, 4, 5, 8, 9, 16, 17, 24, 25, 48, 49, 64, 65, 72, 73, 96, 97,
                 128, 129, 256, 257}
TotalMemChoices == {g * KBperGB : g \in RamGBChoices} \cup {4 * KBperGB + 1, 5 * KBperGB - 1}
CpuChoices == {0, 1, 2, 8}
DiskCountChoices == {0, 1, 3, 6}

\* The further hosts of the inventory vary less than the first
OtherHostChoices ==
  { [total_mem |-> 2 * KBperGB, cpu_count |-> 1, disks |-> 1],
    [total_mem |-> 20 * KBperGB, cpu_count |-> 4, disks |-> 2],
    [total_mem |-> 300 * KBperGB, cpu_count |-> 16, disks |-> 8] }

diskEntry(i) == [mountpoint |-> <<"/", "d", DigitChars[i + 1]>>, type |-> "ext4",
                 available |-> str(1000 * i), size |-> str(2000 * i)]

mkHost(i, h) == [host_name |-> HostNames[i], public_host_name |-> HostNames[i],
                 total_mem |-> h.total_mem, cpu_count |-> h.cpu_count,
                 disk_info |-> [k \in 1..h.disks |-> diskEntry(k)]]

SummaryHostLists ==
  {<<>>} \cup
  { [i \in 1..(Len(rest) + 1) |-> mkHost(i, IF i = 1 THEN first ELSE rest[i - 1])] :
      first \in [total_mem : TotalMemChoices, cpu_count : CpuChoices, disks : DiskCountChoices],
      rest \in SeqsUpTo(OtherHostChoices, MaxHosts - 1) }

mkComponent(name, hostnames) ==
  [component_name |-> name, display_name |-> name, cardinality |-> <<"1", "+">>,
   component_category |-> "SLAVE", hostnames |-> hostnames]

namesIn(S) == SelectSeq(HostNames, LAMBDA n : n \in S)

\* YARN with its NODEMANAGER on the hosts nm (among them possibly a host that is
\* not in the inventory), HBASE installed or not
SummaryServices(hostItems) ==
  { [services |->
       (IF yarn THEN << [service_name |-> "YARN",
                         components |-> << mkComponent("NODEMANAGER", namesIn(nm)) >>] >>
        ELSE <<>>)
       \o (IF hbase THEN << [service_name |-> "HBASE", components |-> <<>>] >> ELSE <<>>)] :
      yarn \in BOOLEAN, hbase \in BOOLEAN,
      nm \in SUBSET ({hostItems[i].host_name : i \in 1..Len(hostItems)} \cup {"h4"}) }

NoValue == <<>>

InitSummary ==
  /\ hosts \in SummaryHostLists
  /\ services \in SummaryServices(hosts)
  /\ clusterData = NoValue
  /\ configurations = NoValue
  /\ items = <<>>
  /\ ret = NoValue
  /\ raised = ""
  /\ pc = "start"
  /\ login_defs = NoFile

\* clusterData = getConfigurationClusterSummary(servicesList, hosts, components, services)
GetConfigurationClusterSummary ==
  /\ pc = "start"
  /\ IF summaryRaises(hosts, services)
     THEN /\ raised' = "KeyError"
          /\ UNCHANGED clusterData
     ELSE /\ clusterData' = getConfigurationClusterSummary(serviceNames(services), hosts,
                                                            <<>>, services)
          /\ UNCHANGED raised
  /\ pc' = "done"
  /\ UNCHANGED <<login_defs, hosts, services, configurations, items, ret>>

NextSummary == GetConfigurationClusterSummary

SpecSummary == InitSummary /\ [][NextSummary]_vars

\* C1: for every host inventory (empty or not, with or without NODEMANAGER
\* hosts) and either value of the HBASE-installed flag, the cluster summary
\* has totalAvailableRam >= 512 and containers >= 3.
C1_AvailableRamAndContainersFloor ==
  pc = "done" =>
    /\ raised = ""
    /\ clusterData.totalAvailableRam >= 512
    /\ clusterData.containers >= 3

\* The floors are what decides: a host of 1 GB and no cpu (the subtraction is
\* negative, every operand of min is 0) with HBASE installed
C1_Witness ==
  /\ pc = "done"
  /\ Len(hosts) > 0
  /\ clusterData.ram = 1
  /\ clusterData.cpu = 0
  /\ clusterData.hBaseInstalled
  /\ clusterData.totalAvailableRam = 512
  /\ clusterData.containers = 3

(***************************************************************************)
(* getComponentLayoutValidations                                           *)
(***************************************************************************)
\* None where the source has a str or None
NoneStr == <<"None">>

IsDigits(s) == s # <<>> /\ \A i \in 1..Len(s) : IsDigit(s[i])

\* cardinality.split("-"): the part before the first "-" and the part between
\* the first "-" and the second (or the end)
firstIndexOf(s, c) ==
  IF c \in Range(s) THEN CHOOSE i \in 1..Len(s) : s[i] = c /\ \A j \in 1..(i - 1) : s[j] # c
  ELSE 0
splitFirst(s, c) == SubSeq(s, 1, firstIndexOf(s, c) - 1)
splitSecondMutFirst(s, c) == splitFirst(s, c)
splitSecond(s, c) ==
  LET rest == SubSeq(s, firstIndexOf(s, c) + 1, Len(s))
  IN  IF c \in Range(rest) THEN splitFirst(rest, c) ELSE rest

getNotValuableComponents == <<"JOURNALNODE", "ZKFC", "GANGLIA_MONITOR">>

\* DefaultStackAdvisor.isComponentNotValuable (base class): the component's
\* name is in the not-valuable list
isComponentNotValuable(component) ==
  component.component_name \in Range(getNotValuableComponents)

layoutMessage(text, a, b, name) == [text |-> text, a |-> a, b |-> b, name |-> name]

layoutItem(message, componentName, host) ==
  [type |-> "host-component", level |-> "ERROR", message |-> message,
   component_name |-> componentName, host |-> host]

\* the int() calls of the cardinality check raise ValueError on a str that is
\* not a number
cardinalityRaises(component) ==
  LET cardinality == component.cardinality
  IN  /\ cardinality # NoneStr
      /\ IF "+" \in Range(cardinality)
         THEN ~IsDigits(SubSeq(cardinality, 1, Len(cardinality) - 1))
         ELSE IF "-" \in Range(cardinality)
         THEN ~IsDigits(splitFirst(cardinality, "-")) \/ ~IsDigits(splitSecond(cardinality, "-"))
         ELSE IF cardinality = <<"A", "L", "L">> THEN FALSE
         ELSE ~IsDigits(cardinality)

\* the message of one component's cardinality check, NoValue when there is none
cardinalityMessage(component, hostsCount) ==
  LET cardinality == component.cardinality
      componentDisplayName == component.display_name
      componentHostsCount == IF component.hostnames # NoneStr
                             THEN Len(component.hostnames) ELSE 0
  IN  IF "+" \in Range(cardinality)
      THEN LET hostsMin == intDigits(SubSeq(cardinality, 1, Len(cardinality) - 1))
           IN  IF componentHostsCount < hostsMin
               THEN layoutMessage("At least {0} {1} components should be installed in cluster.",
                                  hostsMin, 0, componentDisplayName)
               ELSE NoValue
      ELSE IF "-" \in Range(cardinality)
      THEN LET hostsMin == intDigits(splitFirst(cardinality, "-"))
               hostsMax == intDigits(splitSecond(cardinality, "-"))
           IN  IF componentHostsCount > hostsMax \/ componentHostsCount < hostsMin
               THEN layoutMessage("Between {0} and {1} {2} components should be installed in cluster.",
                                  hostsMin, hostsMax, componentDisplayName)
               ELSE NoValue
      ELSE IF cardinality = <<"A", "L", "L">>
      THEN IF componentHostsCount # hostsCount
           THEN layoutMessage("{0} component should be installed on all hosts in cluster.",
                              0, 0, componentDisplayName)
           ELSE NoValue
      ELSE IF componentHostsCount # intDigits(cardinality)
           THEN layoutMessage("Exactly {0} {1} components should be installed in cluster.",
                              intDigits(cardinality), 0, componentDisplayName)
           ELSE NoValue

RECURSIVE cardinalityItems(_, _)
cardinalityItems(componentsList, hostsCount) ==
  IF componentsList = <<>> THEN <<>>
  ELSE LET component == Head(componentsList)
           message == IF component.cardinality # NoneStr
                      THEN cardinalityMessage(component, hostsCount) ELSE NoValue
       IN  (IF message # NoValue
            THEN <<layoutItem(message, component.component_name, "")>> ELSE <<>>)
           \o cardinalityItems(Tail(componentsList), hostsCount)

\* [item for sublist in listOfLists for item in sublist]
RECURSIVE flatten(_)
flatten(ll) == IF ll = <<>> THEN <<>> ELSE Head(ll) \o flatten(Tail(ll))

componentsListOf(svcs) ==
  flatten([i \in 1..Len(svcs.services) |-> svcs.services[i].components])

usedHostsListMutAll(componentsList) ==
  flatten([i \in 1..Len(componentsList) |-> componentsList[i].hostnames])
usedHostsList(componentsList) ==
  LET valuable == SelectSeq(componentsList, LAMBDA c : ~isComponentNotValuable(c))
  IN  flatten([i \in 1..Len(valuable) |-> valuable[i].hostnames])

hostUsageItems(componentsList, hostsList) ==
  LET used == Range(usedHostsList(componentsList))
      nonUsedHostsList == SelectSeq(hostsList, LAMBDA h : h \notin used)
  IN  [i \in 1..Len(nonUsedHostsList) |->
         layoutItem(layoutMessage("Host is not used", 0, 0, ""), "", nonUsedHostsList[i])]

\* ValueError of int() in the cardinality check; TypeError of the iteration
\* over the hostnames of a valuable component when they are None
layoutRaises(svcs) ==
  LET componentsList == componentsListOf(svcs)
  IN  IF \E i \in 1..Len(componentsList) : cardinalityRaises(componentsList[i])
      THEN "ValueError"
      ELSE IF \E i \in 1..Len(componentsList) :
                 /\ ~isComponentNotValuable(componentsList[i])
                 /\ componentsList[i].hostnames = NoneStr
      THEN "TypeError"
      ELSE ""

getComponentLayoutValidations(svcs, hostItems) ==
  LET hostsList == [i \in 1..Len(hostItems) |-> hostItems[i].host_name]
      componentsList == componentsListOf(svcs)
  IN  cardinalityItems(componentsList, Len(hostsList))
      \o hostUsageItems(componentsList, hostsList)

(***************************************************************************)
(* Inputs of the layout validation                                         *)
(***************************************************************************)
MaxComponents == 2
MaxLayoutHosts == 3

\* Each cardinality with what it means: form, N and M
CardinalityTable ==
  { [text |-> NoneStr, form |-> "null", n |-> 0, m |-> 0],
    [text |-> <<"0", "+">>, form |-> "N+", n |-> 0, m |-> 0],
    [text |-> <<"1", "+">>, form |-> "N+", n |-> 1, m |-> 0],
    [text |-> <<"3", "+">>, form |-> "N+", n |-> 3, m |-> 0],
    [text |-> <<"1">>, form |-> "N", n |-> 1, m |-> 0],
    [text |-> <<"2">>, form |-> "N", n |-> 2, m |-> 0],
    [text |-> <<"1", "0">>, form |-> "N", n |-> 10, m |-> 0],
    [text |-> <<"0", "-", "1">>, form |-> "N-M", n |-> 0, m |-> 1],
    [text |-> <<"1", "-", "2">>, form |-> "N-M", n |-> 1, m |-> 2],
    [text |-> <<"A", "L", "L">>, form |-> "ALL", n |-> 0, m |-> 0] }
CardinalityTexts == {c.text : c \in CardinalityTable}
cardinalityMeaning(text) == CHOOSE c \in CardinalityTable : c.text = text

LayoutHostSets == SUBSET {HostNames[i] : i \in 1..MaxLayoutHosts}

layoutComponent(name, cardinality, hostSet) ==
  [component_name |-> name, display_name |-> name, cardinality |-> cardinality,
   component_category |-> "MASTER", hostnames |-> namesIn(hostSet)]

\* The first component takes every cardinality; the further ones, of other
\* names, vary less
FirstComponentNames == {"NAMENODE", "ZKFC", "JOURNALNODE"}
OtherComponentNames == <<"GANGLIA_MONITOR", "SECONDARY_NAMENODE", "HBASE_MASTER">>
OtherCardinalities == {NoneStr, <<"1", "+">>, <<"A", "L", "L">>}
OtherHostSets == {{}, {"h1"}, {"h2", "h3"}}

LayoutServices ==
  { [services |->
       << [service_name |-> "HDFS",
           components |-> << layoutComponent(name, card, hs) >>],
          [service_name |-> "OTHER",
           components |-> [k \in 1..Len(rest) |->
                             layoutComponent(OtherComponentNames[k], rest[k][1], rest[k][2])]] >>] :
      name \in FirstComponentNames, card \in CardinalityTexts, hs \in LayoutHostSets,
      rest \in SeqsUpTo(OtherCardinalities \X OtherHostSets, MaxComponents - 1) }

LayoutHostLists ==
  { [i \in 1..n |-> mkHost(i, [total_mem |-> 8 * KBperGB, cpu_count |-> 2, disks |-> 1])] :
      n \in 0..MaxLayoutHosts }

InitLayout ==
  /\ hosts \in LayoutHostLists
  /\ services \in LayoutServices
  /\ clusterData = NoValue
  /\ configurations = NoValue
  /\ items = <<>>
  /\ ret = NoValue
  /\ raised = ""
  /\ pc = "start"
  /\ login_defs = NoFile

\* items = getComponentLayoutValidations(services, hosts)
GetComponentLayoutValidations ==
  /\ pc = "start"
  /\ IF layoutRaises(services) # ""
     THEN /\ raised' = layoutRaises(services)
          /\ UNCHANGED items
     ELSE /\ items' = getComponentLayoutValidations(services, hosts)
          /\ UNCHANGED raised
  /\ pc' = "done"
  /\ UNCHANGED <<login_defs, hosts, services, clusterData, configurations, ret>>

NextLayout == GetComponentLayoutValidations

SpecLayout == InitLayout /\ [][NextLayout]_vars

\* What the cardinality grammar asks of a host count
cardinalityViolated(meaning, count, hostsCount) ==
  CASE meaning.form = "N+" -> count < meaning.n
    [] meaning.form = "N-M" -> count < meaning.n \/ count > meaning.m
    [] meaning.form = "N" -> count # meaning.n
    [] meaning.form = "ALL" -> count # hostsCount
    [] OTHER -> FALSE

cardinalityRangeText(meaning) ==
  CASE meaning.form = "N+" -> "At least {0} {1} components should be installed in cluster."
    [] meaning.form = "N-M" -> "Between {0} and {1} {2} components should be installed in cluster."
    [] meaning.form = "N" -> "Exactly {0} {1} components should be installed in cluster."
    [] meaning.form = "ALL" -> "{0} component should be installed on all hosts in cluster."
    [] OTHER -> ""

itemsOfComponent(name) ==
  SelectSeq(items, LAMBDA it : it.component_name = name)

\* C3: a component with a cardinality gets exactly one ERROR item, naming the
\* required range and its numbers, if and only if its host count violates the
\* cardinality; it gets no item when the count conforms or the cardinality is
\* null.
C3_CardinalityItems ==
  pc = "done" =>
    /\ raised = ""
    /\ \A i \in 1..Len(componentsListOf(services)) :
         LET component == componentsListOf(services)[i]
             meaning == cardinalityMeaning(component.cardinality)
             found == itemsOfComponent(component.component_name)
         IN  IF cardinalityViolated(meaning, Len(component.hostnames), Len(hosts))
             THEN /\ Len(found) = 1
                  /\ found[1].level = "ERROR"
                  /\ found[1].message.text = cardinalityRangeText(meaning)
                  /\ meaning.form \in {"N+", "N-M", "N"} => found[1].message.a = meaning.n
                  /\ meaning.form = "N-M" => found[1].message.b = meaning.m
                  /\ found[1].message.name = component.display_name
             ELSE found = <<>>

\* "3+" on two hosts, beside a component whose "ALL" is violated too
C3_Witness ==
  /\ pc = "done"
  /\ \E i \in 1..Len(componentsListOf(services)) :
       LET component == componentsListOf(services)[i]
       IN  /\ component.cardinality = <<"3", "+">>
           /\ Len(component.hostnames) = 2
           /\ Len(itemsOfComponent(component.component_name)) = 1
           /\ itemsOfComponent(component.component_name)[1].message.a = 3
  /\ \E i \in 1..Len(componentsListOf(services)) :
       LET component == componentsListOf(services)[i]
       IN  /\ component.cardinality = <<"A", "L", "L">>
           /\ Len(component.hostnames) < Len(hosts)
           /\ Len(itemsOfComponent(component.component_name)) = 1

hostIsUsed(h) ==
  \E i \in 1..Len(componentsListOf(services)) :
     /\ componentsListOf(services)[i].component_name
          \notin {"JOURNALNODE", "ZKFC", "GANGLIA_MONITOR"}
     /\ h \in Range(componentsListOf(services)[i].hostnames)

itemsOfHost(h) ==
  SelectSeq(items, LAMBDA it : it.host = h)

\* C4: a host of the inventory gets one ERROR "Host is not used" if and only
\* if it is among the hostnames of no component other than JOURNALNODE, ZKFC
\* and GANGLIA_MONITOR.
C4_HostIsNotUsed ==
  pc = "done" =>
    /\ raised = ""
    /\ \A i \in 1..Len(hosts) :
         LET found == itemsOfHost(hosts[i].host_name)
         IN  IF hostIsUsed(hosts[i].host_name)
             THEN found = <<>>
             ELSE /\ Len(found) = 1
                  /\ found[1].level = "ERROR"
                  /\ found[1].message.text = "Host is not used"
    /\ \A k \in 1..Len(items) :
         items[k].message.text = "Host is not used" =>
           \E i \in 1..Len(hosts) : hosts[i].host_name = items[k].host

\* One host runs only not-valuable components and is reported, another runs a
\* valuable one and is not
C4_Witness ==
  /\ pc = "done"
  /\ \E i \in 1..Len(hosts) :
       /\ ~hostIsUsed(hosts[i].host_name)
       /\ \E c \in 1..Len(componentsListOf(services)) :
            hosts[i].host_name \in Range(componentsListOf(services)[c].hostnames)
       /\ Len(itemsOfHost(hosts[i].host_name)) = 1
  /\ \E i \in 1..Len(hosts) :
       /\ hostIsUsed(hosts[i].host_name)
       /\ itemsOfHost(hosts[i].host_name) = <<>>

(***************************************************************************)
(* validateXmxValue                                                        *)
(***************************************************************************)
getWarnItem(message) == [level |-> "WARN", message |-> message]
getErrorItem(message) == [level |-> "ERROR", message |-> message]
msg(text, arg) == [text |-> text, arg |-> arg]

\* the places where "-Xmx" and a digit start: the matches of -Xmx(\d+)... ,
\* which cannot overlap
xmxMatches(value) ==
  {i \in 1..(Len(value) - 4) : SubSeq(value, i, i + 3) = <<"-", "X", "m", "x">>
                               /\ IsDigit(value[i + 4])}

\* len(re.findall('-Xmx(\d+)(b|k|m|g|p|t|B|K|M|G|P|T)?', value)) == 1
checkXmxValueFormat(value) == Cardinality(xmxMatches(value)) = 1

\* the end of the run of digits that starts at i
RECURSIVE digitsEnd(_, _)
digitsEnd(value, i) ==
  IF i < Len(value) /\ IsDigit(value[i + 1]) THEN digitsEnd(value, i + 1) ELSE i

\* re.findall("-Xmx(\d+)(.?)", value)[0]: the digits of the first match and
\* the character after them, lowered ("" at the end of the str)
getXmxSize(value) ==
  LET i == CHOOSE k \in xmxMatches(value) : \A j \in xmxMatches(value) : k <= j
      last == digitsEnd(value, i + 4)
  IN  SubSeq(value, i + 4, last) \o lower(SubSeq(value, last + 1, Min(last + 1, Len(value))))

\* A number of bytes n * 1024^e is kept as [n, e]: 1024^5 does not fit the
\* integers of the checker. Less-than is exact for n below 2^20.
Bytes(n, e) == [n |-> n, e |-> e]
BytesLess(x, y) ==
  IF x.e = y.e THEN x.n < y.n
  ELSE IF x.e > y.e
  THEN IF x.n = 0 THEN 0 < y.n
       ELSE IF x.e - y.e >= 2 THEN FALSE ELSE x.n * 1024 < y.n
  ELSE IF y.n = 0 THEN FALSE
       ELSE IF y.e - x.e >= 2 THEN TRUE ELSE x.n < y.n * 1024

xmxModifier(value) ==
  LET modifier == lower(value)[Len(value)]
  IN  IF modifier = " " \/ IsDigit(modifier) THEN "b" ELSE modifier

xmxModifierConds(modifier) ==
  << modifier = "b", modifier = "k", modifier = "m", modifier = "g", modifier = "t",
     modifier = "p" >>

\* the dict of formatXmxSizeToBytes has no key True for any other modifier
formatXmxSizeToBytesRaises(value) ==
  Len(value) # 0 /\ ~BoolDictHasTrue(xmxModifierConds(xmxModifier(value)))

formatXmxSizeToBytes(value) ==
  IF Len(value) = 0 THEN Bytes(0, 0)
  ELSE Bytes(to_number(lower(value)),
             BoolDictAtTrue(xmxModifierConds(xmxModifier(value)), <<0, 1, 2, 3, 4, 5>>))

\* the exception validateXmxValue ends with, "" if it returns
validateXmxValueRaises(properties, recommendedDefaults, propertyName) ==
  IF propertyName \notin DOMAIN properties THEN ""
  ELSE IF propertyName \notin DOMAIN recommendedDefaults THEN "KeyError"
  ELSE LET value == properties[propertyName]
           defaultValue == recommendedDefaults[propertyName]
       IN  IF defaultValue = NoneStr THEN ""
           ELSE IF ~checkXmxValueFormat(defaultValue) THEN ""
           ELSE IF ~checkXmxValueFormat(value) THEN ""
           ELSE IF formatXmxSizeToBytesRaises(getXmxSize(value))
                   \/ formatXmxSizeToBytesRaises(getXmxSize(defaultValue))
                THEN "KeyError" ELSE ""

validateXmxValue(properties, recommendedDefaults, propertyName) ==
  IF propertyName \notin DOMAIN properties THEN getErrorItem(msg("Value should be set", <<>>))
  ELSE LET value == properties[propertyName]
           defaultValue == recommendedDefaults[propertyName]
       IN  IF defaultValue = NoneStr
           THEN getErrorItem(msg("Config's default value can't be null or undefined", <<>>))
           ELSE IF ~checkXmxValueFormat(value) /\ checkXmxValueFormat(defaultValue)
           THEN getErrorItem(msg("Invalid value format", <<>>))
           ELSE IF ~checkXmxValueFormat(defaultValue) THEN NoValue
           ELSE LET valueInt == formatXmxSizeToBytes(getXmxSize(value))
                    defaultValueXmx == getXmxSize(defaultValue)
                    defaultValueInt == formatXmxSizeToBytes(defaultValueXmx)
                IN  IF BytesLess(valueInt, defaultValueInt)
                    THEN getWarnItem(msg("Value is less than the recommended default of -Xmx",
                                         defaultValueXmx))
                    ELSE NoValue

(***************************************************************************)
(* Inputs of validateXmxValue                                              *)
(***************************************************************************)
\* Values with what they mean: whether they carry one heap flag, and its size
\* n * 1024^e
XmxTable ==
  { [text |-> <<"-", "X", "m", "x", "5", "1", "2", "m">>, flag |-> TRUE, n |-> 512, e |-> 2],
    [text |-> <<"-", "X", "m", "x", "1", "0", "2", "4", "m">>, flag |-> TRUE, n |-> 1024, e |-> 2],
    [text |-> <<"-", "X", "m", "x", "1", "g">>, flag |-> TRUE, n |-> 1, e |-> 3],
    [text |-> <<"-", "X", "m", "x", "1", "G">>, flag |-> TRUE, n |-> 1, e |-> 3],
    [text |-> <<"-", "X", "m", "x", "2", "0", "4", "8", "K">>, flag |-> TRUE, n |-> 2048, e |-> 1],
    [text |-> <<"-", "X", "m", "x", "5", "1", "2">>, flag |-> TRUE, n |-> 512, e |-> 0],
    [text |-> <<"-", "X", "m", "x", "9", "0", "0", "b">>, flag |-> TRUE, n |-> 900, e |-> 0],
    [text |-> <<"-", "X", "m", "x", "1", "t">>, flag |-> TRUE, n |-> 1, e |-> 4],
    [text |-> <<"-", "X", "m", "x", "1", "P">>, flag |-> TRUE, n |-> 1, e |-> 5],
    [text |-> <<"-", "X", "m", "x", "0", "m">>, flag |-> TRUE, n |-> 0, e |-> 2],
    [text |-> <<"-", "s", "e", "r", "v", "e", "r", " ", "-", "X", "m", "x", "7", "6", "8", "m", " ", "-", "D", "x">>, flag |-> TRUE, n |-> 768, e |-> 2],
    [text |-> <<"-", "X", "m", "x", "5", "1", "2", " ", "-", "D", "x">>, flag |-> TRUE, n |-> 512, e |-> 0],
    [text |-> <<"5", "1", "2">>, flag |-> FALSE, n |-> 0, e |-> 0],
    [text |-> <<"1", "0", "2", "4", "m">>, flag |-> FALSE, n |-> 0, e |-> 0],
    [text |-> <<>>, flag |-> FALSE, n |-> 0, e |-> 0],
    [text |-> <<"-", "X", "m", "x", "m">>, flag |-> FALSE, n |-> 0, e |-> 0],
    [text |-> <<"-", "X", "m", "x", "5", "1", "2", "m", " ", "-", "X", "m", "x", "1", "g">>, flag |-> FALSE, n |-> 0, e |-> 0] }
\* a heap flag followed by a character that is no unit
XmxUnknownUnit == { <<"-", "X", "m", "x", "5", "1", "2", "x">>, <<"-", "X", "m", "x", "1", "g", "b", " ", "i", "s", " ", "n", "o", "t">>, <<"-", "X", "m", "x", "2", ",">> }
XmxValues == {v.text : v \in XmxTable} \cup XmxUnknownUnit
xmxMeaning(text) == CHOOSE v \in XmxTable : v.text = text

siteTree(siteName, properties) == (siteName :> [properties |-> properties])

InitXmx ==
  /\ hosts = <<>>
  /\ \E live \in XmxValues \cup {NoneStr} :
       services = [services |-> <<>>,
                   configurations |->
                     siteTree("mapred-site",
                              IF live = NoneStr THEN <<>>
                              ELSE ("mapreduce.map.java.opts" :> live))]
  /\ clusterData = NoValue
  /\ \E rec \in XmxValues :
       configurations = siteTree("mapred-site", ("mapreduce.map.java.opts" :> rec))
  /\ items = <<>>
  /\ ret = NoValue
  /\ raised = ""
  /\ pc = "start"
  /\ login_defs = NoFile

\* ret = validateXmxValue(properties, recommendedDefaults, 'mapreduce.map.java.opts')
ValidateXmxValue ==
  /\ pc = "start"
  /\ LET properties == services.configurations["mapred-site"].properties
         recommendedDefaults == configurations["mapred-site"].properties
         e == validateXmxValueRaises(properties, recommendedDefaults, "mapreduce.map.java.opts")
     IN  IF e # ""
         THEN raised' = e /\ UNCHANGED ret
         ELSE /\ ret' = validateXmxValue(properties, recommendedDefaults,
                                         "mapreduce.map.java.opts")
              /\ UNCHANGED raised
  /\ pc' = "done"
  /\ UNCHANGED <<login_defs, hosts, services, clusterData, configurations, items>>

NextXmx == ValidateXmxValue

SpecXmx == InitXmx /\ [][NextXmx]_vars

xmxLive == services.configurations["mapred-site"].properties
xmxRecommended == configurations["mapred-site"].properties["mapreduce.map.java.opts"]
xmxHasFlag(text) ==
  text \in XmxUnknownUnit \/ xmxMeaning(text).flag

\* C5 as claimed: with a heap flag in both values the validator returns, and
\* returns a WARN iff the live size is below the recommended one; a live value
\* without the syntax against a recommended one with it is an ERROR; a
\* recommended value without the syntax gives nothing.
C5_XmxAsClaimed ==
  (pc = "done" /\ "mapreduce.map.java.opts" \in DOMAIN xmxLive) =>
    LET live == xmxLive["mapreduce.map.java.opts"]
    IN  /\ raised = ""
        /\ ~xmxHasFlag(xmxRecommended) => ret = NoValue
        /\ (xmxHasFlag(xmxRecommended) /\ ~xmxHasFlag(live)) =>
              (ret # NoValue /\ ret.level = "ERROR")
        /\ (xmxHasFlag(xmxRecommended) /\ xmxHasFlag(live)) =>
              IF live \in XmxUnknownUnit \/ xmxRecommended \in XmxUnknownUnit
              THEN ret = NoValue \/ ret.level = "WARN"
              ELSE (ret # NoValue /\ ret.level = "WARN") <=>
                     BytesLess(Bytes(xmxMeaning(live).n, xmxMeaning(live).e),
                               Bytes(xmxMeaning(xmxRecommended).n,
                                     xmxMeaning(xmxRecommended).e))

\* What holds of the code: the three cases, for values whose heap flag is
\* followed by a unit b/k/m/g/t/p, a space or nothing.
C5_XmxRecognizedUnits ==
  (pc = "done" /\ "mapreduce.map.java.opts" \in DOMAIN xmxLive
     /\ xmxLive["mapreduce.map.java.opts"] \notin XmxUnknownUnit
     /\ xmxRecommended \notin XmxUnknownUnit) =>
    LET live == xmxMeaning(xmxLive["mapreduce.map.java.opts"])
        rec == xmxMeaning(xmxRecommended)
    IN  /\ raised = ""
        /\ ~rec.flag => ret = NoValue
        /\ (rec.flag /\ ~live.flag) => (ret # NoValue /\ ret.level = "ERROR")
        /\ (rec.flag /\ live.flag) =>
              IF BytesLess(Bytes(live.n, live.e), Bytes(rec.n, rec.e))
              THEN ret # NoValue /\ ret.level = "WARN"
              ELSE ret = NoValue

\* -Xmx1G against -Xmx1024m: equal sizes in different units, no finding
C5_WitnessRecognizedUnits ==
  /\ pc = "done"
  /\ "mapreduce.map.java.opts" \in DOMAIN xmxLive
  /\ xmxLive["mapreduce.map.java.opts"] = <<"-", "X", "m", "x", "1", "G">>
  /\ xmxRecommended = <<"-", "X", "m", "x", "1", "0", "2", "4", "m">>
  /\ ret = NoValue
  /\ raised = ""

\* -Xmx512x against -Xmx1024m: the unit lookup raises
C5_WitnessUnknownUnit ==
  /\ pc = "done"
  /\ "mapreduce.map.java.opts" \in DOMAIN xmxLive
  /\ xmxLive["mapreduce.map.java.opts"] = <<"-", "X", "m", "x", "5", "1", "2", "x">>
  /\ xmxRecommended = <<"-", "X", "m", "x", "1", "0", "2", "4", "m">>
  /\ raised = "KeyError"

(***************************************************************************)
(* getPreferredMountPoints                                                 *)
(***************************************************************************)
undesirableMountPoints ==
  { <<"/">>, <<"/", "h", "o", "m", "e">>, <<"/", "e", "t", "c", "/", "r", "e", "s", "o", "l", "v", ".", "c", "o", "n", "f">>, <<"/", "e", "t", "c", "/", "h", "o", "s", "t", "s">>, <<"/", "e", "t", "c", "/", "h", "o", "s", "t", "n", "a", "m", "e">>, <<"/", "t", "m", "p">> }
undesirableFsTypes == {"devtmpfs", "tmpfs", "vboxsf", "CDFS"}

\* the condition under which a disk_info entry enters mountPointsDict
mountIsKept(mountpoint) ==
  ~(\/ mountpoint.mountpoint \in undesirableMountPoints
    \/ StartsWith(mountpoint.mountpoint, <<"/", "b", "o", "o", "t">>)
    \/ StartsWith(mountpoint.mountpoint, <<"/", "m", "n", "t">>)
    \/ mountpoint.type \in undesirableFsTypes
    \/ mountpoint.available = str(0))

\* mountPointsDict: a later entry of the same mount point overwrites the earlier
mountPointsDictOf(disk_info) ==
  LET kept == {i \in 1..Len(disk_info) : mountIsKept(disk_info[i])}
      lastOf(mp) == CHOOSE i \in kept :
                      /\ disk_info[i].mountpoint = mp
                      /\ \A j \in kept : disk_info[j].mountpoint = mp => j <= i
  IN  [mp \in {disk_info[i].mountpoint : i \in kept} |->
         to_number(disk_info[lastOf(mp)].available)]

\* sorted(order, key=key.get, reverse=True): a stable sort, larger keys first
sortedMutAscending(order, key) ==
  LET pos(i) == Cardinality({j \in 1..Len(order) : key[order[j]] < key[order[i]]})
                + Cardinality({j \in 1..(i - 1) : key[order[j]] = key[order[i]]}) + 1
  IN  [p \in 1..Len(order) |-> order[CHOOSE i \in 1..Len(order) : pos(i) = p]]
sortedReverse(order, key) ==
  LET pos(i) == Cardinality({j \in 1..Len(order) : key[order[j]] > key[order[i]]})
                + Cardinality({j \in 1..(i - 1) : key[order[j]] = key[order[i]]}) + 1
  IN  [p \in 1..Len(order) |-> order[CHOOSE i \in 1..Len(order) : pos(i) = p]]

\* hostInfo is NoValue for None; order is the iteration order of mountPointsDict
getPreferredMountPoints(hostInfo, order) ==
  LET mountPoints ==
        IF hostInfo # NoValue /\ "disk_info" \in DOMAIN hostInfo
        THEN LET mountPointsDict == mountPointsDictOf(hostInfo.disk_info)
             IN  IF DOMAIN mountPointsDict # {} THEN sortedReverse(order, mountPointsDict)
                 ELSE <<>>
        ELSE <<>>
  IN  Append(mountPoints, <<"/">>)

\* the iteration orders a dict of these keys can have
dictOrders(hostInfo) ==
  IF hostInfo # NoValue /\ "disk_info" \in DOMAIN hostInfo
  THEN Perms(DOMAIN mountPointsDictOf(hostInfo.disk_info))
  ELSE {<<>>}

(***************************************************************************)
(* Inputs of getPreferredMountPoints                                       *)
(***************************************************************************)
MaxDisks == 3

\* disk_info entries with what they mean: whether the mount is excluded, and
\* its available space as a number
DiskTable ==
  { [mountpoint |-> <<"/">>, type |-> "ext4", available |-> <<"1", "0", "0">>, excluded |-> TRUE, space |-> 100],
    [mountpoint |-> <<"/", "h", "o", "m", "e">>, type |-> "ext4", available |-> <<"7", "0", "0">>, excluded |-> TRUE, space |-> 700],
    [mountpoint |-> <<"/", "t", "m", "p">>, type |-> "ext4", available |-> <<"5", "0">>, excluded |-> TRUE, space |-> 50],
    [mountpoint |-> <<"/", "e", "t", "c", "/", "h", "o", "s", "t", "s">>, type |-> "ext4", available |-> <<"6", "0">>, excluded |-> TRUE, space |-> 60],
    [mountpoint |-> <<"/", "b", "o", "o", "t", "/", "e", "f", "i">>, type |-> "vfat", available |-> <<"5", "0">>, excluded |-> TRUE, space |-> 50],
    [mountpoint |-> <<"/", "m", "n", "t", "/", "d", "1">>, type |-> "ext4", available |-> <<"9", "0", "0">>, excluded |-> TRUE, space |-> 900],
    [mountpoint |-> <<"/", "r", "u", "n">>, type |-> "tmpfs", available |-> <<"8", "0", "0">>, excluded |-> TRUE, space |-> 800],
    [mountpoint |-> <<"/", "v", "a", "g", "r", "a", "n", "t">>, type |-> "vboxsf", available |-> <<"8", "0", "0">>, excluded |-> TRUE, space |-> 800],
    [mountpoint |-> <<"/", "d", "e", "v">>, type |-> "devtmpfs", available |-> <<"3", "0">>, excluded |-> TRUE, space |-> 30],
    [mountpoint |-> <<"/", "f", "u", "l", "l">>, type |-> "ext4", available |-> <<"0">>, excluded |-> TRUE, space |-> 0],
    [mountpoint |-> <<"/", "d", "a", "t", "a">>, type |-> "ext4", available |-> <<"5", "0", "0">>, excluded |-> FALSE, space |-> 500],
    [mountpoint |-> <<"/", "g", "r", "i", "d", "/", "0">>, type |-> "ext4", available |-> <<"9">>, excluded |-> FALSE, space |-> 9],
    [mountpoint |-> <<"/", "g", "r", "i", "d", "/", "1">>, type |-> "xfs", available |-> <<"1", "0">>, excluded |-> FALSE, space |-> 10],
    [mountpoint |-> <<"/", "g", "r", "i", "d", "/", "2">>, type |-> "ext4", available |-> <<"5", "0", "0">>, excluded |-> FALSE, space |-> 500],
    [mountpoint |-> <<"/", "h", "o", "m", "e", "s">>, type |-> "ext4", available |-> <<"2", "0">>, excluded |-> FALSE, space |-> 20] }
diskInfoEntry(d) == [mountpoint |-> d.mountpoint, type |-> d.type, available |-> d.available]
diskMeaning(mp) == CHOOSE d \in DiskTable : d.mountpoint = mp

\* lists of entries of distinct mount points
DiskLayouts ==
  { l \in SeqsUpTo({diskInfoEntry(d) : d \in DiskTable}, MaxDisks) :
      \A i, j \in 1..Len(l) : l[i].mountpoint = l[j].mountpoint => i = j }

InitMounts ==
  /\ \/ hosts = <<>>
     \/ hosts = << [host_name |-> "h1"] >>
     \/ \E l \in DiskLayouts : hosts = << [host_name |-> "h1", disk_info |-> l] >>
  /\ services = NoValue
  /\ clusterData = NoValue
  /\ configurations = NoValue
  /\ items = <<>>
  /\ ret = NoValue
  /\ raised = ""
  /\ pc = "start"
  /\ login_defs = NoFile

\* ret = getPreferredMountPoints(hostInfo)
GetPreferredMountPoints ==
  /\ pc = "start"
  /\ LET hostInfo == IF hosts = <<>> THEN NoValue ELSE hosts[1]
     IN  \E order \in dictOrders(hostInfo) : ret' = getPreferredMountPoints(hostInfo, order)
  /\ pc' = "done"
  /\ UNCHANGED <<login_defs, hosts, services, clusterData, configurations, items, raised>>

NextMounts == GetPreferredMountPoints

SpecMounts == InitMounts /\ [][NextMounts]_vars

mountsOffered ==
  IF hosts = <<>> \/ "disk_info" \notin DOMAIN hosts[1] THEN {}
  ELSE {hosts[1].disk_info[i].mountpoint : i \in 1..Len(hosts[1].disk_info)}

\* C6: the result of getPreferredMountPoints is the mounts that are not
\* excluded, each once, by available space non-increasing, and then "/"; it
\* is never empty and holds "/" exactly once.
C6_PreferredMountPoints ==
  pc = "done" =>
    /\ Len(ret) >= 1
    /\ ret[Len(ret)] = <<"/">>
    /\ Cardinality({i \in 1..Len(ret) : ret[i] = <<"/">>}) = 1
    /\ {ret[i] : i \in 1..(Len(ret) - 1)} = {mp \in mountsOffered : ~diskMeaning(mp).excluded}
    /\ \A i, j \in 1..(Len(ret) - 1) : ret[i] = ret[j] => i = j
    /\ \A i, j \in 1..(Len(ret) - 1) :
         i < j => diskMeaning(ret[i]).space >= diskMeaning(ret[j]).space

\* "10" ranks before "9", /boot/efi is left out
C6_Witness ==
  /\ pc = "done"
  /\ <<"/", "b", "o", "o", "t", "/", "e", "f", "i">> \in mountsOffered
  /\ ret = << <<"/", "g", "r", "i", "d", "/", "1">>, <<"/", "g", "r", "i", "d", "/", "0">>, <<"/">> >>

(***************************************************************************)
(* putProperty                                                             *)
(***************************************************************************)
\* a computed value is an int or a str
intValue(n) == [kind |-> "int", n |-> n, s |-> <<>>]
strValue(s) == [kind |-> "str", n |-> 0, s |-> s]
\* a float literal below 1, in hundredths: str(0.3) = "0.3", str(0.35) = "0.35"
floatValue(hundredths) == [kind |-> "float", n |-> hundredths, s |-> <<>>]
\* str(value)
strOf(value) ==
  IF value.kind = "int" THEN str(value.n)
  ELSE IF value.kind = "float"
  THEN <<"0", ".">> \o (IF value.n % 10 = 0 THEN str(value.n \div 10)
                        ELSE IF value.n < 10 THEN <<"0">> \o str(value.n)
                        ELSE str(value.n))
  ELSE value.s

\* userConfigs and changedConfigs of putProperty ("if services:" is false for
\* None and for an empty dict)
userConfigsOf(svcs) ==
  IF svcs # NoValue /\ "configurations" \in DOMAIN svcs THEN svcs["configurations"] ELSE <<>>
changedConfigsOf(svcs) ==
  IF svcs # NoValue /\ "changed-configurations" \in DOMAIN svcs
  THEN svcs["changed-configurations"] ELSE <<>>

isPropertyInChangedConfigs(configType, propertyName, changedConfigs) ==
  \E i \in 1..Len(changedConfigs) :
    changedConfigs[i].type = configType /\ changedConfigs[i].name = propertyName

\* putProperty up to the closure it returns: config[configType]["properties"] exists
putProperty(config, configType) ==
  LET c1 == IF configType \in DOMAIN config THEN config ELSE (configType :> <<>>) @@ config
  IN  IF "properties" \in DOMAIN c1[configType] THEN c1
      ELSE [c1 EXCEPT ![configType] = ("properties" :> <<>>) @@ @]

\* userConfigs[configType]['properties'][key] raises KeyError where a level is missing
appendPropertyRaises(configType, key, svcs) ==
  /\ isPropertyInChangedConfigs(configType, key, changedConfigsOf(svcs))
  /\ ~(/\ configType \in DOMAIN userConfigsOf(svcs)
       /\ "properties" \in DOMAIN userConfigsOf(svcs)[configType]
       /\ key \in DOMAIN userConfigsOf(svcs)[configType]["properties"])

\* the closure appendProperty(key, value) of putProperty(config, configType, services)
appendPropertyMutOverride(config, configType, key, value, svcs) ==
  [config EXCEPT ![configType]["properties"] = (key :> strOf(value)) @@ @]
appendProperty(config, configType, key, value, svcs) ==
  IF isPropertyInChangedConfigs(configType, key, changedConfigsOf(svcs))
  THEN [config EXCEPT ![configType]["properties"] =
          (key :> userConfigsOf(svcs)[configType]["properties"][key]) @@ @]
  ELSE [config EXCEPT ![configType]["properties"] = (key :> strOf(value)) @@ @]

(***************************************************************************)
(* Inputs of putProperty                                                   *)
(***************************************************************************)
MaxChanged == 1

PutConfigTypes == {"yarn-site", "yarn-env"}
PutKeys == {"yarn.scheduler.minimum-allocation-mb", "min_user_id"}
\* computed values with the text the recommended tree is to hold for them
ComputedTable ==
  { [value |-> intValue(682), text |-> <<"6", "8", "2">>],
    [value |-> intValue(1000), text |-> <<"1", "0", "0", "0">>],
    [value |-> strValue(<<"h", "a", "d", "o", "o", "p">>), text |-> <<"h", "a", "d", "o", "o", "p">>] }
ComputedValues == {c.value : c \in ComputedTable}
computedText(value) == (CHOOSE c \in ComputedTable : c.value = value).text
LiveValue == ("yarn.scheduler.minimum-allocation-mb" :> <<"9", "9", "9">>) @@ ("min_user_id" :> <<"5", "0", "0">>)

\* live trees: a config type is absent, or holds some of the keys
LiveSites ==
  { [properties |-> [k \in ks |-> LiveValue[k]]] : ks \in SUBSET PutKeys }
LiveTrees ==
  UNION { [ts -> LiveSites] : ts \in SUBSET PutConfigTypes }
ChangedLists ==
  SeqsUpTo([type : PutConfigTypes, name : PutKeys], MaxChanged)

InitPut ==
  /\ hosts = <<>>
  /\ \E live \in LiveTrees :
       \/ services = ("configurations" :> live) @@ ("services" :> <<>>)
       \/ \E changed \in ChangedLists :
            services = ("changed-configurations" :> changed) @@ ("configurations" :> live)
                       @@ ("services" :> <<>>)
  /\ clusterData = NoValue
  /\ configurations = <<>>
  /\ items = <<>>
  /\ ret = NoValue
  /\ raised = ""
  /\ pc = "run"
  /\ login_defs = NoFile

\* putX = self.putProperty(configurations, configType, services)
PutProperty(configType) ==
  /\ pc = "run"
  /\ configurations' = putProperty(configurations, configType)
  /\ UNCHANGED <<login_defs, hosts, services, clusterData, items, ret, raised, pc>>

\* putX(key, value); a KeyError ends the request
AppendProperty(configType, key, value) ==
  /\ pc = "run"
  /\ configType \in DOMAIN configurations
  /\ IF appendPropertyRaises(configType, key, services)
     THEN raised' = "KeyError" /\ pc' = "done" /\ UNCHANGED configurations
     ELSE /\ configurations' = appendProperty(configurations, configType, key, value, services)
          /\ UNCHANGED <<raised, pc>>
  /\ UNCHANGED <<login_defs, hosts, services, clusterData, items, ret>>

NextPut ==
  \/ \E configType \in PutConfigTypes : PutProperty(configType)
  \/ \E configType \in PutConfigTypes, key \in PutKeys, value \in ComputedValues :
       AppendProperty(configType, key, value)

SpecPut == InitPut /\ [][NextPut]_vars

putIsChanged(t, k) ==
  /\ "changed-configurations" \in DOMAIN services
  /\ \E i \in 1..Len(services["changed-configurations"]) :
       services["changed-configurations"][i] = [type |-> t, name |-> k]
putHasLive(t, k) ==
  /\ t \in DOMAIN services["configurations"]
  /\ k \in DOMAIN services["configurations"][t].properties

\* after any writes: a changed key holds the live value, any other key the
\* text of a computed value
putTreeProtected ==
  \A t \in DOMAIN configurations : \A k \in DOMAIN configurations[t]["properties"] :
    IF putIsChanged(t, k)
    THEN putHasLive(t, k) /\ configurations[t]["properties"][k] = LiveValue[k]
    ELSE configurations[t]["properties"][k] \in {computedText(v) : v \in ComputedValues}

\* one write: a changed key gets the live value (the write fails and leaves
\* the key out if there is none), any other key the text of the computed value
putWriteProtected(t, k, v) ==
  AppendProperty(t, k, v) =>
    IF putIsChanged(t, k)
    THEN IF putHasLive(t, k)
         THEN raised' = "" /\ configurations'[t]["properties"][k] = LiveValue[k]
         ELSE raised' = "KeyError" /\ k \notin DOMAIN configurations'[t]["properties"]
    ELSE raised' = "" /\ configurations'[t]["properties"][k] = computedText(v)

\* C2: every write appendProperty(key, computedValue) puts the live value of a
\* key named in changed-configurations into the recommended tree and
\* str(computedValue) for any other key, and the tree stays so after any
\* sequence of writes.
C2_ChangedConfigProtection ==
  /\ []putTreeProtected
  /\ [][\A t \in PutConfigTypes, k \in PutKeys, v \in ComputedValues :
          putWriteProtected(t, k, v)]_vars

\* the changed yarn.scheduler.minimum-allocation-mb holds the live "999"
\* beside a computed min_user_id
C2_Witness ==
  /\ putIsChanged("yarn-site", "yarn.scheduler.minimum-allocation-mb")
  /\ "yarn-site" \in DOMAIN configurations
  /\ "yarn-env" \in DOMAIN configurations
  /\ configurations["yarn-site"]["properties"] =
       ("yarn.scheduler.minimum-allocation-mb" :> <<"9", "9", "9">>)
  /\ configurations["yarn-env"]["properties"] = ("min_user_id" :> <<"1", "0", "0", "0">>)

(***************************************************************************)
(* recommendAmsConfigurations                                              *)
(***************************************************************************)
\* int(round(x)) for x = num / den >= 0: halves round away from zero
roundRatMutDown(num, den) == num \div den
roundRat(num, den) == (2 * num + den) \div (2 * den)

\* round_to_n(mem_size, n) for mem_size = num / den >= 0
round_to_n(num, den, n) == roundRat(num, den * n) * n

\* int(x ** 0.9) for the products count * multiplier that the inputs give
pow09Table ==
  (0 :> 0) @@ (10 :> 7) @@ (20 :> 14) @@ (30 :> 21) @@ (50 :> 33) @@ (100 :> 63)
  @@ (150 :> 90) @@ (4980 :> 2125) @@ (4990 :> 2129) @@ (15000 :> 5734)
pow09(x) == pow09Table[x]

HEAP_PER_MASTER_COMPONENT == 50
HEAP_PER_SLAVE_COMPONENT == 10

schMemoryMap ==
  << [serviceName |-> "HDFS", componentName |-> "NAMENODE",
      multiplier |-> HEAP_PER_MASTER_COMPONENT],
     [serviceName |-> "HDFS", componentName |-> "DATANODE",
      multiplier |-> HEAP_PER_SLAVE_COMPONENT],
     [serviceName |-> "YARN", componentName |-> "RESOURCEMANAGER",
      multiplier |-> HEAP_PER_MASTER_COMPONENT],
     [serviceName |-> "HBASE", componentName |-> "HBASE_MASTER",
      multiplier |-> HEAP_PER_MASTER_COMPONENT],
     [serviceName |-> "HBASE", componentName |-> "HBASE_REGIONSERVER",
      multiplier |-> HEAP_PER_SLAVE_COMPONENT],
     [serviceName |-> "ACCUMULO", componentName |-> "ACCUMULO_MASTER",
      multiplier |-> HEAP_PER_MASTER_COMPONENT],
     [serviceName |-> "ACCUMULO", componentName |-> "ACCUMULO_TSERVER",
      multiplier |-> HEAP_PER_SLAVE_COMPONENT],
     [serviceName |-> "KAFKA", componentName |-> "KAFKA_BROKER",
      multiplier |-> HEAP_PER_MASTER_COMPONENT],
     [serviceName |-> "FLUME", componentName |-> "FLUME_HANDLER",
      multiplier |-> HEAP_PER_SLAVE_COMPONENT],
     [serviceName |-> "STORM", componentName |-> "NIMBUS",
      multiplier |-> HEAP_PER_MASTER_COMPONENT],
     [serviceName |-> "AMBARI_METRICS", componentName |-> "METRICS_COLLECTOR",
      multiplier |-> HEAP_PER_MASTER_COMPONENT],
     [serviceName |-> "AMBARI_METRICS", componentName |-> "METRICS_MONITOR",
      multiplier |-> HEAP_PER_SLAVE_COMPONENT] >>

\* the component entry of a service, NoValue if the service or the component
\* is not there
componentOf(serviceName, componentName, svcs) ==
  LET ss == SelectSeq(svcs.services, LAMBDA s : s.service_name = serviceName)
      cs == IF ss = <<>> THEN <<>>
            ELSE SelectSeq(ss[1].components, LAMBDA c : c.component_name = componentName)
  IN  IF cs = <<>> THEN NoValue ELSE cs[1]

\* len(self.getHostsWithComponent(serviceName, componentName, services, hosts)).
\* The hosts of a component that only count as sinks are kept as their number,
\* sinkHosts, beside the hostnames that name hosts of the inventory.
schCountOf(serviceName, componentName, svcs, hostItems) ==
  LET c == componentOf(serviceName, componentName, svcs)
  IN  IF c = NoValue THEN 0
      ELSE IF "sinkHosts" \in DOMAIN c THEN c.sinkHosts
      ELSE Len(getHostsWithComponent(serviceName, componentName, svcs, hostItems))

schCounts(svcs, hostItems) ==
  [i \in 1..Len(schMemoryMap) |->
     schCountOf(schMemoryMap[i].serviceName, schMemoryMap[i].componentName, svcs, hostItems)]

\* getAmsMemoryRecommendation: collector_heapsize, hbase_heapsize, total_sinks_count
getAmsMemoryRecommendation(svcs, hostItems) ==
  LET counts == schCounts(svcs, hostItems)
      hbase_heapsize ==
        500 + SeqSum([i \in 1..Len(schMemoryMap) |->
                        pow09(counts[i] * schMemoryMap[i].multiplier)])
      total_sinks_count == SeqSum(counts)
      collector_heapsize == IF hbase_heapsize > 2048 THEN hbase_heapsize \div 4 ELSE 512
  IN  [collector_heapsize |-> round_to_n(collector_heapsize, 1, 128),
       hbase_heapsize |-> round_to_n(hbase_heapsize, 1, 128),
       total_sinks_count |-> total_sinks_count]

\* DefaultStackAdvisor.getComponentHostNames: the hostnames of the component
getComponentHostNames(svcs, serviceName, componentName) ==
  LET c == componentOf(serviceName, componentName, svcs)
  IN  IF c = NoValue THEN <<>> ELSE c.hostnames

\* re.sub("^file:///|/", "", path, count=1)
stripFirstSlash(path) ==
  IF StartsWith(path, <<"f", "i", "l", "e", ":", "/", "/", "/">>) THEN SubSeq(path, 9, Len(path))
  ELSE IF \E i \in 1..Len(path) : path[i] = "/"
  THEN LET i == CHOOSE k \in 1..Len(path) :
                  path[k] = "/" /\ \A j \in 1..(k - 1) : path[j] # "/"
       IN  SubSeq(path, 1, i - 1) \o SubSeq(path, i + 1, Len(path))
  ELSE path

\* os.path.join(a, b)
pathJoin(a, b) ==
  IF StartsWith(b, <<"/">>) THEN b
  ELSE IF a = <<>> \/ a[Len(a)] = "/" THEN a \o b
  ELSE a \o <<"/">> \o b

\* ','.join(splits) of a list of strs
RECURSIVE joinComma(_)
joinComma(splits) ==
  IF splits = <<>> THEN <<>>
  ELSE IF Len(splits) = 1 THEN splits[1]
  ELSE splits[1] \o <<",">> \o joinComma(Tail(splits))

\* the host whose mount points the loop over amsCollectorHosts ends with: the
\* last collector host name that the inventory knows; NoValue if there is none
amsMountHost(svcs, hostItems) ==
  LET amsCollectorHosts == getComponentHostNames(svcs, "AMBARI_METRICS", "METRICS_COLLECTOR")
      known == SelectSeq(amsCollectorHosts,
                         LAMBDA n : \E i \in 1..Len(hostItems) : hostItems[i].host_name = n)
  IN  IF known = <<>> THEN NoValue
      ELSE SelectSeq(hostItems, LAMBDA h : h.host_name = known[Len(known)])[1]

amsLiveHbaseSite(svcs) ==
  IF "ams-hbase-site" \in DOMAIN svcs["configurations"]
  THEN svcs["configurations"]["ams-hbase-site"]["properties"] ELSE <<>>

amsLiveRootDir(svcs) ==
  IF "hbase.rootdir" \in DOMAIN amsLiveHbaseSite(svcs)
  THEN amsLiveHbaseSite(svcs)["hbase.rootdir"]
  ELSE <<"f", "i", "l", "e", ":", "/", "/", "/", "v", "a", "r", "/", "l", "i", "b", "/", "a", "m", "b", "a", "r", "i", "-", "m", "e", "t", "r", "i", "c", "s", "-", "c", "o", "l", "l", "e", "c", "t", "o", "r", "/", "h", "b", "a", "s", "e">>

amsLiveTmpDir(svcs) ==
  IF "hbase.tmp.dir" \in DOMAIN amsLiveHbaseSite(svcs)
  THEN amsLiveHbaseSite(svcs)["hbase.tmp.dir"]
  ELSE <<"/", "v", "a", "r", "/", "l", "i", "b", "/", "a", "m", "b", "a", "r", "i", "-", "m", "e", "t", "r", "i", "c", "s", "-", "c", "o", "l", "l", "e", "c", "t", "o", "r", "/", "h", "b", "a", "s", "e", "-", "t", "m", "p">>

hbaseClusterDistributedOf(svcs) ==
  /\ "hbase.cluster.distributed" \in DOMAIN amsLiveHbaseSite(svcs)
  /\ lower(amsLiveHbaseSite(svcs)["hbase.cluster.distributed"]) = <<"t", "r", "u", "e">>

amsRootDir(svcs, mountpoints) ==
  IF ~StartsWith(amsLiveRootDir(svcs), <<"h", "d", "f", "s", ":", "/", "/">>)
  THEN <<"f", "i", "l", "e", ":", "/", "/">> \o pathJoin(mountpoints[1], stripFirstSlash(amsLiveRootDir(svcs)))
  ELSE amsLiveRootDir(svcs)

amsTmpDirMutFirst(svcs, mountpoints) ==
  pathJoin(mountpoints[1], stripFirstSlash(amsLiveTmpDir(svcs)))
amsTmpDir(svcs, mountpoints) ==
  IF Len(mountpoints) > 1 /\ ~StartsWith(amsRootDir(svcs, mountpoints), <<"h", "d", "f", "s", ":", "/", "/">>)
  THEN pathJoin(mountpoints[2], stripFirstSlash(amsLiveTmpDir(svcs)))
  ELSE pathJoin(mountpoints[1], stripFirstSlash(amsLiveTmpDir(svcs)))

write(configType, key, value) == [type |-> configType, key |-> key, value |-> value]

\* the writes of the three tiers of total_sinks_count
amsTierWritesMutTopAt500(total_sinks_count) ==
  IF total_sinks_count >= 500
  THEN << write("ams-hbase-site", "hbase.regionserver.handler.count", intValue(60)),
          write("ams-hbase-site", "hbase.regionserver.hlog.blocksize", intValue(134217728)),
          write("ams-hbase-site", "hbase.regionserver.maxlogs", intValue(64)),
          write("ams-hbase-site", "hbase.hregion.memstore.flush.size", intValue(268435456)),
          write("ams-hbase-site", "hbase.regionserver.global.memstore.upperLimit",
                floatValue(30)),
          write("ams-hbase-site", "hbase.regionserver.global.memstore.lowerLimit",
                floatValue(25)),
          write("ams-hbase-site", "phoenix.query.maxGlobalMemoryPercentage", intValue(20)),
          write("ams-site", "phoenix.query.maxGlobalMemoryPercentage", intValue(30)),
          write("ams-hbase-site", "phoenix.coprocessor.maxMetaDataCacheSize",
                intValue(81920000)) >>
  ELSE << write("ams-hbase-site", "phoenix.coprocessor.maxMetaDataCacheSize",
                intValue(20480000)) >>
amsTierWrites(total_sinks_count) ==
  IF total_sinks_count >= 2000
  THEN << write("ams-hbase-site", "hbase.regionserver.handler.count", intValue(60)),
          write("ams-hbase-site", "hbase.regionserver.hlog.blocksize", intValue(134217728)),
          write("ams-hbase-site", "hbase.regionserver.maxlogs", intValue(64)),
          write("ams-hbase-site", "hbase.hregion.memstore.flush.size", intValue(268435456)),
          write("ams-hbase-site", "hbase.regionserver.global.memstore.upperLimit",
                floatValue(30)),
          write("ams-hbase-site", "hbase.regionserver.global.memstore.lowerLimit",
                floatValue(25)),
          write("ams-hbase-site", "phoenix.query.maxGlobalMemoryPercentage", intValue(20)),
          write("ams-site", "phoenix.query.maxGlobalMemoryPercentage", intValue(30)),
          write("ams-hbase-site", "phoenix.coprocessor.maxMetaDataCacheSize",
                intValue(81920000)) >>
  ELSE IF total_sinks_count >= 500
  THEN << write("ams-hbase-site", "hbase.regionserver.handler.count", intValue(60)),
          write("ams-hbase-site", "hbase.regionserver.hlog.blocksize", intValue(134217728)),
          write("ams-hbase-site", "hbase.regionserver.maxlogs", intValue(64)),
          write("ams-hbase-site", "hbase.hregion.memstore.flush.size", intValue(268435456)),
          write("ams-hbase-site", "phoenix.coprocessor.maxMetaDataCacheSize",
                intValue(40960000)) >>
  ELSE << write("ams-hbase-site", "phoenix.coprocessor.maxMetaDataCacheSize",
                intValue(20480000)) >>

\* the heap sizes of distributed and of embedded mode
amsHeapWrites(hbaseClusterDistributed, hbase_heapsize) ==
  IF hbaseClusterDistributed
  THEN << write("ams-hbase-env", "hbase_master_heapsize", strValue(<<"5", "1", "2">>)),
          write("ams-hbase-env", "hbase_master_xmn_size", strValue(<<"1", "0", "2">>)),
          write("ams-hbase-env", "hbase_regionserver_heapsize", intValue(hbase_heapsize)),
          write("ams-hbase-env", "regionserver_xmn_size",
                intValue(round_to_n(15 * hbase_heapsize, 100, 64))) >>
  ELSE << write("ams-hbase-env", "hbase_master_heapsize", intValue(hbase_heapsize)),
          write("ams-hbase-env", "hbase_master_xmn_size",
                intValue(round_to_n(15 * (hbase_heapsize + 512), 100, 64))) >>

\* dfs.client.read.shortcircuit, written for a root dir on hdfs
amsShortCircuitWrites(svcs, rootDir) ==
  IF StartsWith(rootDir, <<"h", "d", "f", "s", ":", "/", "/">>)
  THEN LET amsCollectorHosts ==
             getComponentHostNames(svcs, "AMBARI_METRICS", "METRICS_COLLECTOR")
           dn_hosts == getComponentHostNames(svcs, "HDFS", "DATANODE")
       IN  << write("ams-hbase-site", "dfs.client.read.shortcircuit",
                    strValue(IF Range(amsCollectorHosts) \cap Range(dn_hosts) # {}
                             THEN <<"t", "r", "u", "e">> ELSE <<"f", "a", "l", "s", "e">>)) >>
  ELSE <<>>

\* the two split point properties from the result of the split point finder
amsSplitWrites(result) ==
  << write("ams-site", "timeline.metrics.host.aggregate.splitpoints",
           strValue(IF result.precision # <<>> THEN joinComma(result.precision)
                    ELSE << " " >>)),
     write("ams-site", "timeline.metrics.cluster.aggregate.splitpoints",
           strValue(IF result.aggregate # <<>> THEN joinComma(result.aggregate)
                    ELSE << " " >>)) >>

\* every putXProperty(key, value) call of recommendAmsConfigurations, in order
amsWrites(svcs, hostItems, order, result) ==
  LET host == amsMountHost(svcs, hostItems)
      mountpoints == IF host = NoValue THEN << <<"/">> >>
                     ELSE getPreferredMountPoints(host, order)
      rootDir == amsRootDir(svcs, mountpoints)
      mem == getAmsMemoryRecommendation(svcs, hostItems)
      amsCollectorHosts == getComponentHostNames(svcs, "AMBARI_METRICS", "METRICS_COLLECTOR")
  IN  << write("ams-hbase-site", "hbase.rootdir", strValue(rootDir)),
         write("ams-hbase-site", "hbase.tmp.dir", strValue(amsTmpDir(svcs, mountpoints))),
         write("ams-env", "metrics_collector_heapsize", intValue(mem.collector_heapsize)),
         write("ams-hbase-site", "hfile.block.cache.size", floatValue(30)),
         write("ams-hbase-site", "hbase.hregion.memstore.flush.size", intValue(134217728)),
         write("ams-hbase-site", "hbase.regionserver.global.memstore.upperLimit",
               floatValue(35)),
         write("ams-hbase-site", "hbase.regionserver.global.memstore.lowerLimit",
               floatValue(30)),
         write("ams-site", "timeline.metrics.host.aggregator.ttl", intValue(86400)) >>
      \o (IF Len(amsCollectorHosts) > 1 THEN <<>> ELSE amsTierWrites(mem.total_sinks_count))
      \o amsHeapWrites(hbaseClusterDistributedOf(svcs), mem.hbase_heapsize)
      \o amsShortCircuitWrites(svcs, rootDir)
      \o amsSplitWrites(result)

\* the writes one after the other, up to the first that raises
RECURSIVE applyWrites(_, _, _)
applyWrites(config, writes, svcs) ==
  IF writes = <<>> THEN [config |-> config, raised |-> ""]
  ELSE IF appendPropertyRaises(Head(writes).type, Head(writes).key, svcs)
  THEN [config |-> config, raised |-> "KeyError"]
  ELSE applyWrites(appendProperty(config, Head(writes).type, Head(writes).key,
                                  Head(writes).value, svcs),
                   Tail(writes), svcs)

recommendAmsConfigurations(config, svcs, hostItems, order, result) ==
  applyWrites(putProperty(putProperty(putProperty(putProperty(config, "ams-env"),
                                                  "ams-hbase-site"), "ams-site"),
                          "ams-hbase-env"),
              amsWrites(svcs, hostItems, order, result), svcs)

(***************************************************************************)
(* Inputs of recommendAmsConfigurations                                    *)
(***************************************************************************)
amsDisk(mountpoint, type, available) ==
  [mountpoint |-> mountpoint, type |-> type, available |-> available]

\* disk layouts of the collector host h1: none; three mounts; two mounts of
\* equal space
AmsDiskLayouts ==
  { <<>>,
    << amsDisk(<<"/", "g", "r", "i", "d", "/", "0">>, "ext4", <<"9">>), amsDisk(<<"/", "b", "o", "o", "t", "/", "e", "f", "i">>, "vfat", <<"5", "0">>),
       amsDisk(<<"/", "g", "r", "i", "d", "/", "1">>, "xfs", <<"1", "0">>) >>,
    << amsDisk(<<"/">>, "ext4", <<"1", "0", "0">>), amsDisk(<<"/", "d", "a", "t", "a">>, "ext4", <<"5", "0", "0">>),
       amsDisk(<<"/", "g", "r", "i", "d", "/", "2">>, "ext4", <<"5", "0", "0">>) >> }

amsHost(name, disk_info) ==
  [host_name |-> name, public_host_name |-> name, total_mem |-> 16 * KBperGB,
   cpu_count |-> 8, disk_info |-> disk_info]

AmsHostLists ==
  { << amsHost("h1", l), amsHost("h2", << amsDisk(<<"/", "d", "2">>, "ext4", <<"7", "0", "0">>) >>) >> :
      l \in AmsDiskLayouts }

\* hostnames of METRICS_COLLECTOR; h9 is no host of the inventory
CollectorChoices == { <<>>, <<"h1">>, <<"h1", "h2">>, <<"h9">> }
MonitorCounts == {0, 1500}
\* the data nodes: their number and the first of them
DataNodeChoices == { <<0, "h1">>, <<498, "h1">>, <<499, "h3">> }

\* a component on n hosts of which only the first is named
sinkComponent(name, firstHost, n) ==
  [component_name |-> name, hostnames |-> IF n = 0 THEN <<>> ELSE <<firstHost>>,
   sinkHosts |-> n]

AmsServiceLists ==
  { << [service_name |-> "AMBARI_METRICS",
        components |-> << [component_name |-> "METRICS_COLLECTOR", hostnames |-> coll],
                          sinkComponent("METRICS_MONITOR", "h1", mon) >>],
       [service_name |-> "HDFS",
        components |-> << [component_name |-> "NAMENODE", hostnames |-> <<"h1">>],
                          sinkComponent("DATANODE", dn[2], dn[1]) >>] >> :
      coll \in CollectorChoices, mon \in MonitorCounts, dn \in DataNodeChoices }

AmsRootDirs ==
  { <<"h", "d", "f", "s", ":", "/", "/", "n", "n", ":", "8", "0", "2", "0", "/", "a", "m", "s", "h", "b", "a", "s", "e">>, <<"f", "i", "l", "e", ":", "/", "/", "/", "v", "a", "r", "/", "l", "i", "b", "/", "a", "m", "s", "/", "h", "b", "a", "s", "e">>, <<"/", "a", "m", "s", "h", "b", "a", "s", "e">> }
AmsTmpDirs == { <<"/", "v", "a", "r", "/", "t", "m", "p", "/", "a", "m", "s">> }
AmsDistributed == { <<"T", "r", "u", "e">>, <<"f", "a", "l", "s", "e">> }
AmsTierLive ==
  ("hbase.regionserver.handler.count" :> <<"3", "0">>)
  @@ ("phoenix.coprocessor.maxMetaDataCacheSize" :> <<"1", "0", "0", "0">>)

\* some of the keys, each with one of its values
optionalProperty(key, values) == {<<>>} \cup {(key :> v) : v \in values}

AmsLiveTrees ==
  {<<>>} \cup
  { ("ams-hbase-site" :> [properties |-> root @@ tmp @@ dist @@ tier]) :
      root \in optionalProperty("hbase.rootdir", AmsRootDirs),
      tmp \in optionalProperty("hbase.tmp.dir", AmsTmpDirs),
      dist \in optionalProperty("hbase.cluster.distributed", AmsDistributed),
      tier \in {<<>>, AmsTierLive} }

AmsChangedLists ==
  SeqsUpTo({[type |-> "ams-hbase-site", name |-> k] : k \in DOMAIN AmsTierLive}, MaxChanged)

\* what the split point finder may return
SplitPointResults ==
  { [precision |-> <<>>, aggregate |-> <<>>],
    [precision |-> << <<"k", "1">>, <<"k", "2">> >>, aggregate |-> << <<"a", "1">> >>] }

InitAms ==
  /\ hosts \in AmsHostLists
  /\ \E svcs \in AmsServiceLists, live \in AmsLiveTrees, changed \in AmsChangedLists :
       services = ("changed-configurations" :> changed) @@ ("configurations" :> live)
                  @@ ("services" :> svcs)
  /\ clusterData = NoValue
  /\ configurations = <<>>
  /\ items = <<>>
  /\ ret = NoValue
  /\ raised = ""
  /\ pc = "start"
  /\ login_defs = NoFile

\* recommendAmsConfigurations(configurations, clusterData, services, hosts)
RecommendAmsConfigurations ==
  /\ pc = "start"
  /\ \E order \in dictOrders(amsMountHost(services, hosts)), result \in SplitPointResults :
       LET out == recommendAmsConfigurations(configurations, services, hosts, order, result)
       IN  configurations' = out.config /\ raised' = out.raised
  /\ pc' = "done"
  /\ UNCHANGED <<login_defs, hosts, services, clusterData, items, ret>>

NextAms == RecommendAmsConfigurations

SpecAms == InitAms /\ [][NextAms]_vars

amsCollectorNames == services.services[1].components[1].hostnames
\* the sinks of the cluster: monitors, data nodes, the collectors that are
\* hosts of the inventory, and the name node
amsSinks ==
  services.services[1].components[2].sinkHosts
  + services.services[2].components[2].sinkHosts
  + Cardinality({i \in 1..Len(hosts) : hosts[i].host_name \in Range(amsCollectorNames)})
  + 1
amsRecommendedHbaseSite == configurations["ams-hbase-site"]["properties"]
\* the key holds the text, unless it is the user's to set
amsHolds(key, text) ==
  putIsChanged("ams-hbase-site", key) \/ (key \in DOMAIN amsRecommendedHbaseSite /\ amsRecommendedHbaseSite[key] = text)

\* C7: with at most one collector host, 2000 sinks or more give the top bundle,
\* 500 to 1999 the middle bundle with the memstore limits left at 0.35/0.3, and
\* fewer than 500 only phoenix.coprocessor.maxMetaDataCacheSize = 20480000,
\* with no handler.count, hlog.blocksize or maxlogs.
C7_SinkTiering ==
  (pc = "done" /\ raised = "" /\ Len(amsCollectorNames) <= 1) =>
    IF amsSinks >= 2000
    THEN /\ amsHolds("hbase.regionserver.handler.count", <<"6", "0">>)
         /\ amsHolds("hbase.hregion.memstore.flush.size", <<"2", "6", "8", "4", "3", "5", "4", "5", "6">>)
         /\ amsHolds("hbase.regionserver.global.memstore.upperLimit", <<"0", ".", "3">>)
         /\ amsHolds("hbase.regionserver.global.memstore.lowerLimit", <<"0", ".", "2", "5">>)
         /\ amsHolds("phoenix.coprocessor.maxMetaDataCacheSize", <<"8", "1", "9", "2", "0", "0", "0", "0">>)
    ELSE IF amsSinks >= 500
    THEN /\ amsHolds("hbase.regionserver.handler.count", <<"6", "0">>)
         /\ amsHolds("hbase.hregion.memstore.flush.size", <<"2", "6", "8", "4", "3", "5", "4", "5", "6">>)
         /\ amsHolds("phoenix.coprocessor.maxMetaDataCacheSize", <<"4", "0", "9", "6", "0", "0", "0", "0">>)
         /\ amsHolds("hbase.regionserver.global.memstore.upperLimit", <<"0", ".", "3", "5">>)
         /\ amsHolds("hbase.regionserver.global.memstore.lowerLimit", <<"0", ".", "3">>)
    ELSE /\ amsHolds("phoenix.coprocessor.maxMetaDataCacheSize", <<"2", "0", "4", "8", "0", "0", "0", "0">>)
         /\ amsHolds("hbase.hregion.memstore.flush.size", <<"1", "3", "4", "2", "1", "7", "7", "2", "8">>)
         /\ amsHolds("hbase.regionserver.global.memstore.upperLimit", <<"0", ".", "3", "5">>)
         /\ amsHolds("hbase.regionserver.global.memstore.lowerLimit", <<"0", ".", "3">>)
         /\ "hbase.regionserver.handler.count" \notin DOMAIN amsRecommendedHbaseSite
         /\ "hbase.regionserver.hlog.blocksize" \notin DOMAIN amsRecommendedHbaseSite
         /\ "hbase.regionserver.maxlogs" \notin DOMAIN amsRecommendedHbaseSite
         /\ "phoenix.query.maxGlobalMemoryPercentage" \notin DOMAIN amsRecommendedHbaseSite

\* exactly 2000 sinks and one collector: the top bundle is in the tree
C7_Witness ==
  /\ pc = "done"
  /\ raised = ""
  /\ Len(amsCollectorNames) = 1
  /\ amsSinks = 2000
  /\ services["changed-configurations"] = <<>>
  /\ amsRecommendedHbaseSite["hbase.regionserver.handler.count"] = <<"6", "0">>
  /\ amsRecommendedHbaseSite["hbase.regionserver.global.memstore.lowerLimit"] = <<"0", ".", "2", "5">>
  /\ amsRecommendedHbaseSite["phoenix.coprocessor.maxMetaDataCacheSize"] = <<"8", "1", "9", "2", "0", "0", "0", "0">>

(***************************************************************************)
(* Configuration validators                                                *)
(***************************************************************************)
\* None where a dict of properties is expected
NoneDict == [None |-> TRUE]

\* an exception raised where an item is computed
raiseItem(e) == [level |-> "RAISE", message |-> msg(e, <<>>)]

\* {"config-name": name, "item": item}
validationItem(name, item) == ("config-name" :> name) @@ ("item" :> item)

getSiteProperties(configs, siteName) ==
  IF siteName \notin DOMAIN configs THEN NoneDict
  ELSE IF "properties" \notin DOMAIN configs[siteName] THEN NoneDict
  ELSE configs[siteName]["properties"]

\* properties.get(key)
getOrNone(properties, key) == IF key \in DOMAIN properties THEN properties[key] ELSE NoneStr

toConfigurationValidationProblems(validationProblems, siteName) ==
  LET found == SelectSeq(validationProblems, LAMBDA v : v["item"] # NoValue)
  IN  [i \in 1..Len(found) |->
         [type |-> "configuration", level |-> found[i]["item"].level,
          message |-> found[i]["item"].message]
         @@ ("config-type" :> siteName) @@ ("config-name" :> found[i]["config-name"])]

\* what a validator ends with: the exception of the first item that raises, or
\* the problems of its items
validatorOutcome(validationProblems, siteName) ==
  LET raises == SelectSeq(validationProblems,
                          LAMBDA v : v["item"] # NoValue /\ v["item"].level = "RAISE")
  IN  IF raises # <<>>
      THEN [items |-> <<>>, raised |-> raises[1]["item"].message.text]
      ELSE [items |-> toConfigurationValidationProblems(validationProblems, siteName),
            raised |-> ""]

validatorLessThenDefaultValue(properties, recommendedDefaults, propertyName) ==
  IF propertyName \notin DOMAIN recommendedDefaults THEN NoValue
  ELSE IF propertyName \notin DOMAIN properties
  THEN getErrorItem(msg("Value should be set", <<>>))
  ELSE LET value == to_number(properties[propertyName])
           defaultValue == to_number(recommendedDefaults[propertyName])
       IN  IF value = NoneNum THEN getErrorItem(msg("Value should be integer", <<>>))
           ELSE IF defaultValue = NoneNum THEN NoValue
           ELSE IF value < defaultValue
           THEN getWarnItem(msg("Value is less than the recommended default of {0}",
                                str(defaultValue)))
           ELSE NoValue

\* "propertyName2 in properties2" raises TypeError for properties2 = None
validatorEqualsPropertyItem(properties1, propertyName1, properties2, propertyName2) ==
  IF propertyName1 \notin DOMAIN properties1
  THEN getErrorItem(msg("Value should be set for %s", <<propertyName1>>))
  ELSE IF properties2 = NoneDict THEN raiseItem("TypeError")
  ELSE IF propertyName2 \notin DOMAIN properties2
  THEN getErrorItem(msg("Value should be set for %s", <<propertyName2>>))
  ELSE IF properties1[propertyName1] # properties2[propertyName2]
  THEN getWarnItem(msg("It is recommended to set equal values for properties {0} and {1}",
                       <<propertyName1, propertyName2>>))
  ELSE NoValue

\* validateXmxValue, with the exception it may end with as an item
validateXmxValueItem(properties, recommendedDefaults, propertyName) ==
  IF validateXmxValueRaises(properties, recommendedDefaults, propertyName) # ""
  THEN raiseItem(validateXmxValueRaises(properties, recommendedDefaults, propertyName))
  ELSE validateXmxValue(properties, recommendedDefaults, propertyName)

validateMapReduce2Configurations(properties, recommendedDefaults, configs, svcs, hostItems) ==
  validatorOutcome(
    << validationItem("mapreduce.map.java.opts",
         validateXmxValueItem(properties, recommendedDefaults, "mapreduce.map.java.opts")),
       validationItem("mapreduce.reduce.java.opts",
         validateXmxValueItem(properties, recommendedDefaults, "mapreduce.reduce.java.opts")),
       validationItem("mapreduce.task.io.sort.mb",
         validatorLessThenDefaultValue(properties, recommendedDefaults,
                                       "mapreduce.task.io.sort.mb")),
       validationItem("mapreduce.map.memory.mb",
         validatorLessThenDefaultValue(properties, recommendedDefaults,
                                       "mapreduce.map.memory.mb")),
       validationItem("mapreduce.reduce.memory.mb",
         validatorLessThenDefaultValue(properties, recommendedDefaults,
                                       "mapreduce.reduce.memory.mb")),
       validationItem("yarn.app.mapreduce.am.resource.mb",
         validatorLessThenDefaultValue(properties, recommendedDefaults,
                                       "yarn.app.mapreduce.am.resource.mb")),
       validationItem("yarn.app.mapreduce.am.command-opts",
         validateXmxValueItem(properties, recommendedDefaults,
                              "yarn.app.mapreduce.am.command-opts")) >>,
    "mapred-site")

validateYARNConfigurations(properties, recommendedDefaults, configs, svcs, hostItems) ==
  LET clusterEnv == getSiteProperties(configs, "cluster-env")
  IN  validatorOutcome(
        << validationItem("yarn.nodemanager.resource.memory-mb",
             validatorLessThenDefaultValue(properties, recommendedDefaults,
                                           "yarn.nodemanager.resource.memory-mb")),
           validationItem("yarn.scheduler.minimum-allocation-mb",
             validatorLessThenDefaultValue(properties, recommendedDefaults,
                                           "yarn.scheduler.minimum-allocation-mb")),
           validationItem("yarn.nodemanager.linux-container-executor.group",
             validatorEqualsPropertyItem(properties,
                                         "yarn.nodemanager.linux-container-executor.group",
                                         clusterEnv, "user_group")),
           validationItem("yarn.scheduler.maximum-allocation-mb",
             validatorLessThenDefaultValue(properties, recommendedDefaults,
                                           "yarn.scheduler.maximum-allocation-mb")) >>,
        "yarn-site")

validateHbaseEnvConfigurations(properties, recommendedDefaults, configs, svcs, hostItems) ==
  LET hbase_site == getSiteProperties(configs, "hbase-site")
  IN  validatorOutcome(
        << validationItem("hbase_regionserver_heapsize",
             validatorLessThenDefaultValue(properties, recommendedDefaults,
                                           "hbase_regionserver_heapsize")),
           validationItem("hbase_master_heapsize",
             validatorLessThenDefaultValue(properties, recommendedDefaults,
                                           "hbase_master_heapsize")),
           validationItem("hbase_user",
             validatorEqualsPropertyItem(properties, "hbase_user", hbase_site,
                                         "hbase.superuser")) >>,
        "hbase-env")

validateHDFSConfigurationsEnv(properties, recommendedDefaults, configs, svcs, hostItems) ==
  validatorOutcome(
    << validationItem("namenode_heapsize",
         validatorLessThenDefaultValue(properties, recommendedDefaults, "namenode_heapsize")),
       validationItem("namenode_opt_newsize",
         validatorLessThenDefaultValue(properties, recommendedDefaults,
                                       "namenode_opt_newsize")),
       validationItem("namenode_opt_maxnewsize",
         validatorLessThenDefaultValue(properties, recommendedDefaults,
                                       "namenode_opt_maxnewsize")) >>,
    "hadoop-env")

validateAmsSiteConfigurations(properties, recommendedDefaults, configs, svcs, hostItems) ==
  LET op_mode == getOrNone(properties, "timeline.metrics.service.operation.mode")
  IN  validatorOutcome(
        << validationItem("timeline.metrics.service.operation.mode",
                          IF op_mode \notin { <<"e", "m", "b", "e", "d", "d", "e", "d">>, <<"d", "i", "s", "t", "r", "i", "b", "u", "t", "e", "d">> }
                          THEN getErrorItem(msg("Correct value should be set.", <<>>))
                          ELSE NoValue) >>,
        "ams-site")

\* the AttributeError that validateAmsHbaseSiteConfigurations ends with where
\* it calls a method of None, "" if it does not
amsHbaseSiteRaises(properties, configs) ==
  LET ams_site == getSiteProperties(configs, "ams-site")
      hbase_rootdir == getOrNone(properties, "hbase.rootdir")
      distributed == getOrNone(properties, "hbase.cluster.distributed")
  IN  IF ams_site = NoneDict THEN "AttributeError"
      ELSE IF getOrNone(ams_site, "timeline.metrics.service.operation.mode") = <<"d", "i", "s", "t", "r", "i", "b", "u", "t", "e", "d">>
              /\ hbase_rootdir = NoneStr
      THEN "AttributeError"
      ELSE IF hbase_rootdir # NoneStr /\ StartsWith(hbase_rootdir, <<"h", "d", "f", "s", ":", "/", "/">>)
              /\ distributed = NoneStr
      THEN "AttributeError"
      ELSE ""

\* validateAmsHbaseSiteConfigurations for a METRICS_COLLECTOR that is on no
\* host: the loop over amsCollectorHosts has no turn
validateAmsHbaseSiteConfigurations(properties, recommendedDefaults, configs, svcs, hostItems) ==
  IF amsHbaseSiteRaises(properties, configs) # ""
  THEN [items |-> <<>>, raised |-> amsHbaseSiteRaises(properties, configs)]
  ELSE
  LET ams_site == getSiteProperties(configs, "ams-site")
      op_mode == getOrNone(ams_site, "timeline.metrics.service.operation.mode")
      hbase_rootdir == getOrNone(properties, "hbase.rootdir")
      distributed == getOrNone(properties, "hbase.cluster.distributed")
      rootdir_item ==
        IF op_mode = <<"d", "i", "s", "t", "r", "i", "b", "u", "t", "e", "d">> /\ ~StartsWith(hbase_rootdir, <<"h", "d", "f", "s", ":", "/", "/">>)
        THEN getWarnItem(msg("In distributed mode hbase.rootdir should point to HDFS.", <<>>))
        ELSE NoValue
      distributed_item ==
        IF hbase_rootdir # NoneStr /\ StartsWith(hbase_rootdir, <<"h", "d", "f", "s", ":", "/", "/">>)
           /\ lower(distributed) # <<"t", "r", "u", "e">>
        THEN getErrorItem(msg("Distributed property should be set to true if hbase.rootdir points to HDFS.",
                              <<>>))
        ELSE NoValue
  IN  validatorOutcome(<< validationItem("hbase.rootdir", rootdir_item),
                          validationItem("hbase.cluster.distributed", distributed_item) >>,
                       "ams-hbase-site")

\* xmn is below 12% or above 20% of heap; xmn may be None, which is below
\* every number
xmnOutOfRange(xmn, heap) == 100 * xmn < 12 * heap \/ 100 * xmn > 20 * heap

\* the exception validateAmsHbaseEnvConfigurations ends with after logDirItem,
\* "" if none: a KeyError of properties[...], an AttributeError of None, a
\* TypeError of a product with None, and the NameError of math.ceil and
\* math.floor where a Xmn item is to be made (the module imports ceil and
\* floor, not math)
amsHbaseEnvRaises(properties, configs) ==
  LET amsHbaseSite == getSiteProperties(configs, "ams-hbase-site")
      need == << "hbase_master_heapsize", "hbase_master_xmn_size",
                 "hbase_regionserver_heapsize", "regionserver_xmn_size" >>
      hbase_master_heapsize == to_number(properties["hbase_master_heapsize"])
      hbase_master_xmn_size == to_number(properties["hbase_master_xmn_size"])
      hbase_regionserver_heapsize == to_number(properties["hbase_regionserver_heapsize"])
      hbase_regionserver_xmn_size == to_number(properties["regionserver_xmn_size"])
  IN  IF \E i \in 1..Len(need) : need[i] \notin DOMAIN properties THEN "KeyError"
      ELSE IF amsHbaseSite = NoneDict
              \/ "hbase.cluster.distributed" \notin DOMAIN amsHbaseSite
      THEN "AttributeError"
      ELSE IF lower(amsHbaseSite["hbase.cluster.distributed"]) = <<"t", "r", "u", "e">>
      THEN IF hbase_master_heapsize = NoneNum THEN "TypeError"
           ELSE IF xmnOutOfRange(hbase_master_xmn_size, hbase_master_heapsize)
           THEN "NameError"
           ELSE IF hbase_regionserver_heapsize = NoneNum THEN "TypeError"
           ELSE IF xmnOutOfRange(hbase_regionserver_xmn_size, hbase_regionserver_heapsize)
           THEN "NameError"
           ELSE ""
      ELSE IF hbase_master_heapsize = NoneNum \/ hbase_regionserver_heapsize = NoneNum
           THEN "TypeError"
           ELSE IF xmnOutOfRange(hbase_master_xmn_size,
                                 hbase_master_heapsize + hbase_regionserver_heapsize)
           THEN "NameError"
           ELSE ""

\* DefaultStackAdvisor.isMasterComponent: the component is master-class
isMasterComponent(component) == component.is_master

\* hostMasterComponents[hostName]: the names of the master components on the
\* host, in the order of the services and their components; the host is no
\* key of the dict where this is empty
hostMasterComponentsOf(svcs, hostName) ==
  LET perService == [i \in 1..Len(svcs.services) |->
                       SelectSeq(svcs.services[i].components,
                                 LAMBDA c : hostName \in Range(c.hostnames)
                                            /\ isMasterComponent(c))]
      components == flatten(perService)
  IN  [i \in 1..Len(components) |-> components[i].component_name]

\* hostComponents: the names of the components on the host
hostComponentsOf(svcs, hostName) ==
  LET perService == [i \in 1..Len(svcs.services) |->
                       SelectSeq(svcs.services[i].components,
                                 LAMBDA c : hostName \in Range(c.hostnames))]
      components == flatten(perService)
  IN  [i \in 1..Len(components) |-> components[i].component_name]

heapsizeProperty(configName, property, default) ==
  ("config-name" :> configName) @@ ("property" :> property) @@ ("default" :> default)
getHeapsizeProperties ==
  [NAMENODE |-> << heapsizeProperty("hadoop-env", "namenode_heapsize", <<"1", "0", "2", "4", "m">>) >>,
   DATANODE |-> << heapsizeProperty("hadoop-env", "dtnode_heapsize", <<"1", "0", "2", "4", "m">>) >>,
   REGIONSERVER |-> << heapsizeProperty("hbase-env", "hbase_regionserver_heapsize", <<"1", "0", "2", "4", "m">>) >>,
   HBASE_MASTER |-> << heapsizeProperty("hbase-env", "hbase_master_heapsize", <<"1", "0", "2", "4", "m">>) >>,
   HIVE_CLIENT |-> << heapsizeProperty("hive-site", "hive.heapsize", <<"1", "0", "2", "4", "m">>) >>,
   HISTORYSERVER |-> << heapsizeProperty("mapred-env", "jobhistory_heapsize", <<"1", "0", "2", "4", "m">>) >>,
   OOZIE_SERVER |-> << heapsizeProperty("oozie-env", "oozie_heapsize", <<"1", "0", "2", "4", "m">>) >>,
   RESOURCEMANAGER |-> << heapsizeProperty("yarn-env", "resourcemanager_heapsize", <<"1", "0", "2", "4", "m">>) >>,
   NODEMANAGER |-> << heapsizeProperty("yarn-env", "nodemanager_heapsize", <<"1", "0", "2", "4", "m">>) >>,
   APP_TIMELINE_SERVER |-> << heapsizeProperty("yarn-env", "apptimelineserver_heapsize", <<"1", "0", "2", "4", "m">>) >>,
   ZOOKEEPER_SERVER |-> << heapsizeProperty("zookeeper-env", "zookeeper_heapsize", <<"1", "0", "2", "4", "m">>) >>,
   METRICS_COLLECTOR |-> << heapsizeProperty("ams-hbase-env", "hbase_master_heapsize", <<"1", "0", "2", "4">>),
                            heapsizeProperty("ams-env", "metrics_collector_heapsize", <<"5", "1", "2">>) >>]

\* the heap size text of one entry: the configured one, the default on
\* KeyError, with "m" put after a text of two or more characters ending in a digit
heapsizeOf(heapSizeProperty, configs) ==
  LET configName == heapSizeProperty["config-name"]
      heapsize == IF /\ configName \in DOMAIN configs
                     /\ "properties" \in DOMAIN configs[configName]
                     /\ heapSizeProperty["property"] \in DOMAIN configs[configName]["properties"]
                  THEN configs[configName]["properties"][heapSizeProperty["property"]]
                  ELSE heapSizeProperty["default"]
  IN  IF Len(heapsize) > 1 /\ IsDigit(heapsize[Len(heapsize)]) THEN heapsize \o <<"m">>
      ELSE heapsize

\* the heap size texts getMemorySizeRequired adds up for the components
heapsizesOf(components, configs) ==
  LET known == SelectSeq(components, LAMBDA c : c \in DOMAIN getHeapsizeProperties)
  IN  flatten([i \in 1..Len(known) |->
                 [j \in 1..Len(getHeapsizeProperties[known[i]]) |->
                    heapsizeOf(getHeapsizeProperties[known[i]][j], configs)]])

\* formatXmxSizeToBytes(heapsize) raises: a modifier that is no key of the
\* dict (KeyError), no digit in the text (TypeError of None * m)
heapsizeRaises(heapsize) ==
  IF formatXmxSizeToBytesRaises(heapsize) THEN "KeyError"
  ELSE IF Len(heapsize) # 0 /\ to_number(lower(heapsize)) = NoneNum THEN "TypeError"
  ELSE ""

\* formatXmxSizeToBytes(heapsize) in KB, for sizes that are whole KB
heapsizeKB(heapsize) ==
  LET bytes == formatXmxSizeToBytes(heapsize)
  IN  IF bytes.e = 0 THEN bytes.n \div 1024
      ELSE IF bytes.e = 1 THEN bytes.n
      ELSE IF bytes.e = 2 THEN bytes.n * 1024
      ELSE bytes.n * 1024 * 1024

\* getMemorySizeRequired(components, configurations) in KB, and the exception
\* it ends with, of the heap size texts it adds up
firstHeapsizeRaise(raises) ==
  LET raising == SelectSeq(raises, LAMBDA r : r # "")
  IN  IF raising = <<>> THEN "" ELSE raising[1]
getMemorySizeRequiredRaises(heapsizes) ==
  firstHeapsizeRaise([i \in 1..Len(heapsizes) |-> heapsizeRaises(heapsizes[i])])
getMemorySizeRequired(heapsizes) ==
  512 * 1024 + SeqSum([i \in 1..Len(heapsizes) |-> heapsizeKB(heapsizes[i])])

masterHostMessage ==
  "Host {0} is used by multiple master components ({1}). It is recommended to use a separate host for the Ambari Metrics Collector component and ensure the host has sufficient memory available."
unusedMemoryMessage ==
  "{0} MB RAM is unused on the host {1} based on components assigned. Consider allocating  {2} MB to metrics_collector_heapsize in ams-env, {3} MB to {4} in ams-hbase-env and {5} MB to {6} in ams-hbase-env"

\* masterHostItem of one turn of the loop over hosts["items"], NoValue where
\* it is not assigned; the KeyError where the collector host has no master
\* component to look up. masters is hostMasterComponents.get(collectorHostName, []).
masterHostTurnMutAnyCluster(collectorHostName, host, masters, hostItems) ==
  IF host.host_name # collectorHostName THEN NoValue
  ELSE IF masters = <<>> THEN raiseItem("KeyError")
  ELSE IF Len(masters) > 2 /\ host.total_mem < 32 * 1024 * 1024
  THEN getWarnItem(msg(masterHostMessage, << collectorHostName, masters >>))
  ELSE NoValue
masterHostTurn(collectorHostName, host, masters, hostItems) ==
  IF host.host_name # collectorHostName \/ ~(Len(hostItems) > 31) THEN NoValue
  ELSE IF masters = <<>> THEN raiseItem("KeyError")
  ELSE IF Len(masters) > 2 /\ host.total_mem < 32 * 1024 * 1024
  THEN getWarnItem(msg(masterHostMessage, << collectorHostName, masters >>))
  ELSE NoValue

\* the exception the unused RAM block of one turn ends with, "" if none;
\* unusedMemory is in KB, requiredRaises the exception of getMemorySizeRequired
unusedMemoryRaises(unusedMemory, requiredRaises, ams_env) ==
  IF requiredRaises # "" THEN requiredRaises
  ELSE IF ~(unusedMemory > 4194304) THEN ""
  ELSE IF ams_env = NoneDict THEN "AttributeError"
  ELSE IF "metrics_collector_heapsize" \notin DOMAIN ams_env THEN "TypeError"
  ELSE IF to_number(ams_env["metrics_collector_heapsize"]) = NoneNum THEN "TypeError"
  ELSE ""

\* the Xmn size of the message: that of 0.12 * (heap + d / 1280) MB, d the KB
\* above 4 GB, the byte int() drops left aside
unusedMemoryXmn(heap, d) ==
  IF heap + d \div 1280 >= 32 * 1024 THEN round_to_n(12 * 32 * 1024, 100, 128)
  ELSE round_to_n(12 * (1280 * heap + d), 128000, 128)

\* the message of the unused RAM block, its MB figures exact: unusedMemory and
\* d in KB, collector and heap the configured sizes in MB
unusedMemoryWarn(unusedMemory, d, collectorHostName, collector, heap, heapPropertyToIncrease, xmnPropertyToIncrease) ==
  getWarnItem(msg(unusedMemoryMessage,
                  << str(unusedMemory \div 1024), collectorHostName,
                     str(d \div 5120 + collector), str(Min(32 * 1024, heap + d \div 1280)),
                     heapPropertyToIncrease, str(unusedMemoryXmn(heap, d)),
                     xmnPropertyToIncrease >>))

\* the items the unused RAM block of one turn extends validationItems with
unusedMemoryItems(unusedMemory, collectorHostName, ams_env, properties, is_hbase_distributed) ==
  IF ~(unusedMemory > 4194304) THEN <<>>
  ELSE IF is_hbase_distributed
  THEN << validationItem("hbase_regionserver_heapsize",
            unusedMemoryWarn(unusedMemory, unusedMemory - 4194304, collectorHostName,
                             to_number(ams_env["metrics_collector_heapsize"]),
                             to_number(properties["hbase_regionserver_heapsize"]),
                             "hbase_regionserver_heapsize", "regionserver_xmn_size")) >>
  ELSE << validationItem("hbase_master_heapsize",
            unusedMemoryWarn(unusedMemory, unusedMemory - 4194304, collectorHostName,
                             to_number(ams_env["metrics_collector_heapsize"]),
                             to_number(properties["hbase_master_heapsize"]),
                             "hbase_master_heapsize", "hbase_master_xmn_size")) >>

\* one turn of the loop over hosts["items"]: out after the masterHostItem, the
\* exception and the items of the turn
collectorHostTurn(out, master, unusedRaises, unusedItems) ==
  IF master # NoValue /\ master.level = "RAISE"
  THEN [out EXCEPT !.raised = master.message.text]
  ELSE IF unusedRaises # ""
  THEN [out EXCEPT !.raised = unusedRaises,
                   !.masterHostItem = IF master = NoValue THEN @ ELSE master]
  ELSE [masterHostItem |-> IF master = NoValue THEN out.masterHostItem ELSE master,
        items |-> out.items \o unusedItems,
        raised |-> ""]

\* the loop over hosts["items"] for one collector host, from the turn of
\* hostItems[i] on: the KB its components require are subtracted from the
\* memory of every host
RECURSIVE collectorHostTurns(_, _, _, _, _, _, _, _, _, _)
collectorHostTurns(out, collectorHostName, i, hostItems, masters, requiredKB, requiredRaises, ams_env, properties, is_hbase_distributed) ==
  IF i > Len(hostItems) \/ out.raised # "" THEN out
  ELSE collectorHostTurns(
         collectorHostTurn(
           out,
           masterHostTurn(collectorHostName, hostItems[i], masters, hostItems),
           unusedMemoryRaises(hostItems[i].total_mem - requiredKB, requiredRaises, ams_env),
           unusedMemoryItems(hostItems[i].total_mem - requiredKB, collectorHostName, ams_env,
                             properties, is_hbase_distributed)),
         collectorHostName, i + 1, hostItems, masters, requiredKB, requiredRaises,
         ams_env, properties, is_hbase_distributed)

\* the loop over amsCollectorHosts
RECURSIVE collectorTurns(_, _, _, _, _, _, _)
collectorTurns(out, amsCollectorHosts, hostItems, properties, configs, svcs, is_hbase_distributed) ==
  IF amsCollectorHosts = <<>> \/ out.raised # "" THEN out
  ELSE collectorTurns(
         collectorHostTurns(
           out, Head(amsCollectorHosts), 1, hostItems,
           hostMasterComponentsOf(svcs, Head(amsCollectorHosts)),
           getMemorySizeRequired(
             heapsizesOf(hostComponentsOf(svcs, Head(amsCollectorHosts)), configs)),
           getMemorySizeRequiredRaises(
             heapsizesOf(hostComponentsOf(svcs, Head(amsCollectorHosts)), configs)),
           getSiteProperties(configs, "ams-env"), properties, is_hbase_distributed),
         Tail(amsCollectorHosts), hostItems, properties, configs, svcs, is_hbase_distributed)

\* the exception validateAmsHbaseEnvConfigurations ends with before
\* validationItems is made, "" if none
amsHbaseEnvEarly(regionServerItem, masterItem, logDirItem, properties, configs) ==
  IF regionServerItem # NoValue /\ regionServerItem.level = "RAISE"
  THEN regionServerItem.message.text
  ELSE IF masterItem # NoValue /\ masterItem.level = "RAISE" THEN masterItem.message.text
  ELSE IF logDirItem # NoValue /\ logDirItem.level = "RAISE" THEN logDirItem.message.text
  ELSE amsHbaseEnvRaises(properties, configs)

\* what validateAmsHbaseEnvConfigurations ends with, given the exception
\* before the loops, the outcome of the loops and the three items. Every Xmn
\* size out of range ends in the NameError of amsHbaseEnvRaises, so
\* masterXmnItem and regionServerXmnItem are None wherever it returns.
amsHbaseEnvOutcome(early, turns, regionServerItem, masterItem, logDirItem) ==
  IF early # "" THEN [items |-> <<>>, raised |-> early]
  ELSE IF turns.raised # "" THEN [items |-> <<>>, raised |-> turns.raised]
  ELSE [items |-> toConfigurationValidationProblems(
                    turns.items
                    \o << validationItem("hbase_regionserver_heapsize", regionServerItem),
                          validationItem("hbase_master_heapsize", masterItem),
                          validationItem("hbase_master_heapsize", turns.masterHostItem),
                          validationItem("hbase_log_dir", logDirItem),
                          validationItem("hbase_master_xmn_size", NoValue),
                          validationItem("regionserver_xmn_size", NoValue) >>,
                    "ams-hbase-env"),
        raised |-> ""]

\* the loops over the collector hosts, entered where masterItem is None
amsHbaseEnvTurns(early, masterItem, properties, configs, svcs, hostItems) ==
  IF early = "" /\ masterItem = NoValue
  THEN collectorTurns(
         [masterHostItem |-> NoValue, items |-> <<>>, raised |-> ""],
         getComponentHostNames(svcs, "AMBARI_METRICS", "METRICS_COLLECTOR"),
         hostItems, properties, configs, svcs,
         lower(getSiteProperties(configs, "ams-hbase-site")["hbase.cluster.distributed"])
           = <<"t", "r", "u", "e">>)
  ELSE [masterHostItem |-> NoValue, items |-> <<>>, raised |-> ""]

amsHbaseEnvWith(regionServerItem, masterItem, logDirItem, properties, configs, svcs, hostItems) ==
  amsHbaseEnvOutcome(
    amsHbaseEnvEarly(regionServerItem, masterItem, logDirItem, properties, configs),
    amsHbaseEnvTurns(
      amsHbaseEnvEarly(regionServerItem, masterItem, logDirItem, properties, configs),
      masterItem, properties, configs, svcs, hostItems),
    regionServerItem, masterItem, logDirItem)

validateAmsHbaseEnvConfigurations(properties, recommendedDefaults, configs, svcs, hostItems) ==
  amsHbaseEnvWith(
    validatorLessThenDefaultValue(properties, recommendedDefaults,
                                  "hbase_regionserver_heapsize"),
    validatorLessThenDefaultValue(properties, recommendedDefaults, "hbase_master_heapsize"),
    validatorEqualsPropertyItem(properties, "hbase_log_dir",
                                getSiteProperties(configs, "ams-env"),
                                "metrics_collector_log_dir"),
    properties, configs, svcs, hostItems)

(***************************************************************************)
(* validateMinMax                                                          *)
(***************************************************************************)
\* str.strip() of blanks
RECURSIVE strip(_)
strip(s) ==
  IF s # <<>> /\ Head(s) \in {" ", "\t", "\r"} THEN strip(Tail(s))
  ELSE IF s # <<>> /\ s[Len(s)] \in {" ", "\t", "\r"} THEN strip(SubSeq(s, 1, Len(s) - 1))
  ELSE s

unsigned(s) == IF s # <<>> /\ s[1] \in {"-", "+"} THEN Tail(s) ELSE s
pointAt(s) == IF \E i \in 1..Len(s) : s[i] = "."
              THEN CHOOSE i \in 1..Len(s) : s[i] = "." /\ \A j \in 1..(i - 1) : s[j] # "."
              ELSE 0
\* the texts int() takes: digits with a sign, blanks around them
isIntText(s) == unsigned(strip(s)) # <<>> /\ IsDigits(unsigned(strip(s)))
\* the decimal texts float() takes: digits around one point, with a sign
\* (exponents, inf and nan are not among the inputs)
isFloatText(s) ==
  LET u == unsigned(strip(s))
      p == pointAt(u)
  IN  /\ p > 0
      /\ Len(u) > 1
      /\ IsDigits(SubSeq(u, 1, p - 1) \o SubSeq(u, p + 1, Len(u)))

RECURSIVE pow10(_)
pow10(k) == IF k = 0 THEN 1 ELSE 10 * pow10(k - 1)

\* convertToNumber(number): int(number), or float(number) after a ValueError,
\* as the quotient num / den
convertToNumberRaises(number) == ~isIntText(number) /\ ~isFloatText(number)
convertToNumber(number) ==
  LET u == unsigned(strip(number))
      sign == IF strip(number)[1] = "-" THEN -1 ELSE 1
      p == pointAt(u)
  IN  IF isIntText(number) THEN [num |-> sign * intDigits(u), den |-> 1, float |-> FALSE]
      ELSE [num |-> sign * intDigits(SubSeq(u, 1, p - 1) \o SubSeq(u, p + 1, Len(u))),
            den |-> pow10(Len(u) - p), float |-> TRUE]
numberGtMutGe(a, b) == a.num * b.den >= b.num * a.den
numberGt(a, b) == a.num * b.den > b.num * a.den

\* "{0}".format(number): an int as its digits, a float by its text
numberText(number, text) ==
  IF number.float THEN strip(text)
  ELSE IF number.num < 0 THEN <<"-">> \o str(-number.num) ELSE str(number.num)

\* the items of one property of property_attributes
minMaxItems(configs, recommendedDefaults, configName, propertyName) ==
  LET attributes == recommendedDefaults[configName]["property_attributes"][propertyName]
      live == configs[configName]["properties"][propertyName]
      checked(bound) == bound \in DOMAIN attributes
                        /\ propertyName \in DOMAIN recommendedDefaults[configName]["properties"]
      maxItem ==
        IF ~checked("maximum") THEN NoValue
        ELSE IF convertToNumberRaises(live) \/ convertToNumberRaises(attributes["maximum"])
        THEN raiseItem("ValueError")
        ELSE IF numberGt(convertToNumber(live), convertToNumber(attributes["maximum"]))
        THEN getWarnItem(msg("Value is greater than the recommended maximum of {0} ",
                             numberText(convertToNumber(attributes["maximum"]),
                                        attributes["maximum"])))
        ELSE NoValue
      minItem ==
        IF ~checked("minimum") THEN NoValue
        ELSE IF convertToNumberRaises(live) \/ convertToNumberRaises(attributes["minimum"])
        THEN raiseItem("ValueError")
        ELSE IF numberGt(convertToNumber(attributes["minimum"]), convertToNumber(live))
        THEN getWarnItem(msg("Value is less than the recommended minimum of {0} ",
                             numberText(convertToNumber(attributes["minimum"]),
                                        attributes["minimum"])))
        ELSE NoValue
  IN  IF propertyName \notin DOMAIN configs[configName]["properties"] THEN <<>>
      ELSE << validationItem(propertyName, maxItem), validationItem(propertyName, minItem) >>

\* the config types of the live tree that the sweep has attributes for
minMaxSites(configs, recommendedDefaults) ==
  {configName \in DOMAIN configs :
     configName \in DOMAIN recommendedDefaults
     /\ "property_attributes" \in DOMAIN recommendedDefaults[configName]}

\* the iteration orders of property_attributes, for each config type
minMaxPropertyOrders(configs, recommendedDefaults) ==
  LET sites == minMaxSites(configs, recommendedDefaults)
      attributes(s) == DOMAIN recommendedDefaults[s]["property_attributes"]
  IN  {f \in [sites -> UNION {Perms(attributes(s)) : s \in sites}] :
         \A s \in sites : f[s] \in Perms(attributes(s))}

\* validateMinMax: what it appends to items, or the exception it ends with.
\* siteOrder is the iteration order of the live tree, over the config types
\* that have attributes, propertyOrders those of their property_attributes.
validateMinMax(recommendedDefaults, configs, siteOrder, propertyOrders) ==
  LET siteItems(configName) ==
        flatten([i \in 1..Len(propertyOrders[configName]) |->
                   minMaxItems(configs, recommendedDefaults, configName,
                               propertyOrders[configName][i])])
      outcomes == [i \in 1..Len(siteOrder) |->
                     validatorOutcome(siteItems(siteOrder[i]), siteOrder[i])]
      raises == SelectSeq(outcomes, LAMBDA o : o.raised # "")
  IN  IF raises # <<>> THEN [items |-> <<>>, raised |-> raises[1].raised]
      ELSE [items |-> flatten([i \in 1..Len(outcomes) |-> outcomes[i].items]),
            raised |-> ""]

(***************************************************************************)
(* getConfigurationsValidationItems                                        *)
(***************************************************************************)
\* getServiceConfigurationValidators: the config types of each service in the
\* iteration order of its dict; amsOrder is that of the three of AMBARI_METRICS
getServiceConfigurationValidators(amsOrder) ==
  [HDFS |-> <<"hadoop-env">>, MAPREDUCE2 |-> <<"mapred-site">>, YARN |-> <<"yarn-site">>,
   HBASE |-> <<"hbase-env">>, AMBARI_METRICS |-> amsOrder]

\* the order in which the dict of AMBARI_METRICS is written
amsDeclarationOrder == <<"ams-hbase-site", "ams-hbase-env", "ams-site">>

\* method(siteProperties, siteRecommendations, configurations, services, hosts)
validatorMethod(siteName, properties, recommendedDefaults, configs, svcs, hostItems) ==
  CASE siteName = "hadoop-env" ->
         validateHDFSConfigurationsEnv(properties, recommendedDefaults, configs, svcs, hostItems)
    [] siteName = "mapred-site" ->
         validateMapReduce2Configurations(properties, recommendedDefaults, configs, svcs,
                                          hostItems)
    [] siteName = "yarn-site" ->
         validateYARNConfigurations(properties, recommendedDefaults, configs, svcs, hostItems)
    [] siteName = "hbase-env" ->
         validateHbaseEnvConfigurations(properties, recommendedDefaults, configs, svcs,
                                        hostItems)
    [] siteName = "ams-hbase-site" ->
         validateAmsHbaseSiteConfigurations(properties, recommendedDefaults, configs, svcs,
                                            hostItems)
    [] siteName = "ams-hbase-env" ->
         validateAmsHbaseEnvConfigurations(properties, recommendedDefaults, configs, svcs,
                                           hostItems)
    [] siteName = "ams-site" ->
         validateAmsSiteConfigurations(properties, recommendedDefaults, configs, svcs,
                                       hostItems)

\* the config types whose validator is called, in the order of the calls
validatorCalls(svcs, amsOrder) ==
  LET validators == getServiceConfigurationValidators(amsOrder)
  IN  flatten([i \in 1..Len(svcs.services) |->
                 IF svcs.services[i].service_name \in DOMAIN validators
                 THEN validators[svcs.services[i].service_name] ELSE <<>>])

\* items.extend(more)
extendMutPrepend(list, more) == more \o list
extend(list, more) == list \o more

\* the loop over the services, from the call at the head of calls on
RECURSIVE runValidators(_, _, _, _, _)
runValidators(calls, list, svcs, hostItems, recommendedDefaults) ==
  IF calls = <<>> THEN [items |-> list, raised |-> ""]
  ELSE LET siteName == Head(calls)
           siteProperties == getSiteProperties(svcs["configurations"], siteName)
       IN  IF siteName \notin DOMAIN recommendedDefaults \/ siteProperties = NoneDict
           THEN runValidators(Tail(calls), list, svcs, hostItems, recommendedDefaults)
           ELSE IF "properties" \notin DOMAIN recommendedDefaults[siteName]
           THEN [items |-> <<>>, raised |-> "KeyError"]
           ELSE LET resultItems ==
                      validatorMethod(siteName, siteProperties,
                                      recommendedDefaults[siteName]["properties"],
                                      svcs["configurations"], svcs, hostItems)
                IN  IF resultItems.raised # ""
                    THEN [items |-> <<>>, raised |-> resultItems.raised]
                    ELSE runValidators(Tail(calls), extend(list, resultItems.items), svcs,
                                       hostItems, recommendedDefaults)

\* getConfigurationsValidationItems after recommendConfigurations has given
\* recommendedDefaults: the items returned, or the exception it ends with
getConfigurationsValidationItems(svcs, hostItems, recommendedDefaults, amsOrder, siteOrder, propertyOrders) ==
  LET perService == runValidators(validatorCalls(svcs, amsOrder), <<>>, svcs, hostItems,
                                  recommendedDefaults)
      clusterWideItems == <<>>
      sweep == validateMinMax(recommendedDefaults, svcs["configurations"], siteOrder,
                              propertyOrders)
  IN  IF perService.raised # "" THEN perService
      ELSE IF sweep.raised # "" THEN sweep
      ELSE [items |-> extend(extend(perService.items, clusterWideItems), sweep.items),
            raised |-> ""]

(***************************************************************************)
(* Inputs of getConfigurationsValidationItems                              *)
(***************************************************************************)
MaxServices == 2

site(properties) == [properties |-> properties]

\* the recommended values of the config types of each service
MapredRecommended ==
  ("mapreduce.map.java.opts" :> <<"-", "X", "m", "x", "1", "0", "2", "4", "m">>)
  @@ ("mapreduce.reduce.java.opts" :> <<"-", "X", "m", "x", "1", "0", "2", "4", "m">>)
  @@ ("mapreduce.task.io.sort.mb" :> <<"4", "1", "0">>)
  @@ ("mapreduce.map.memory.mb" :> <<"1", "0", "2", "4">>)
  @@ ("mapreduce.reduce.memory.mb" :> <<"1", "0", "2", "4">>)
  @@ ("yarn.app.mapreduce.am.resource.mb" :> <<"1", "0", "2", "4">>)
  @@ ("yarn.app.mapreduce.am.command-opts" :> <<"-", "X", "m", "x", "8", "1", "9", "m">>)
YarnRecommended ==
  ("yarn.nodemanager.resource.memory-mb" :> <<"8", "1", "9", "2">>)
  @@ ("yarn.scheduler.minimum-allocation-mb" :> <<"1", "0", "2", "4">>)
  @@ ("yarn.scheduler.maximum-allocation-mb" :> <<"8", "1", "9", "2">>)
  @@ ("yarn.nodemanager.linux-container-executor.group" :> <<"h", "a", "d", "o", "o", "p">>)
\* bounds as the advisors of later stack versions publish them
YarnAttributes ==
  ("yarn.scheduler.maximum-allocation-mb" :> ("maximum" :> <<"8", "1", "9", "2">>))
  @@ ("yarn.scheduler.minimum-allocation-mb" :>
        (("minimum" :> <<"5", "1", "2">>) @@ ("maximum" :> <<"8", "1", "9", "2">>)))
HadoopEnvRecommended ==
  ("namenode_heapsize" :> <<"1", "0", "2", "4">>) @@ ("namenode_opt_newsize" :> <<"1", "2", "8">>)
  @@ ("namenode_opt_maxnewsize" :> <<"1", "2", "8">>)
HbaseEnvRecommended ==
  ("hbase_regionserver_heapsize" :> <<"4", "0", "9", "6">>) @@ ("hbase_master_heapsize" :> <<"1", "0", "2", "4">>)
AmsHbaseEnvRecommended ==
  ("hbase_master_heapsize" :> <<"1", "0", "2", "4">>) @@ ("hbase_master_xmn_size" :> <<"2", "5", "6">>)
AmsHbaseSiteRecommended ==
  ("hbase.rootdir" :> <<"f", "i", "l", "e", ":", "/", "/", "/", "v", "a", "r", "/", "l", "i", "b", "/", "a", "m", "b", "a", "r", "i", "-", "m", "e", "t", "r", "i", "c", "s", "-", "c", "o", "l", "l", "e", "c", "t", "o", "r", "/", "h", "b", "a", "s", "e">>)
  @@ ("hbase.tmp.dir" :> <<"/", "v", "a", "r", "/", "l", "i", "b", "/", "a", "m", "b", "a", "r", "i", "-", "m", "e", "t", "r", "i", "c", "s", "-", "c", "o", "l", "l", "e", "c", "t", "o", "r", "/", "h", "b", "a", "s", "e", "-", "t", "m", "p">>)
AmsSiteRecommended == ("timeline.metrics.host.aggregator.ttl" :> <<"8", "6", "4", "0", "0">>)

RecommendedOf ==
  [HDFS |-> ("hadoop-env" :> site(HadoopEnvRecommended)),
   MAPREDUCE2 |-> ("mapred-site" :> site(MapredRecommended)),
   YARN |-> ("yarn-site" :> [properties |-> YarnRecommended,
                             property_attributes |-> YarnAttributes]),
   HBASE |-> ("hbase-env" :> site(HbaseEnvRecommended)),
   AMBARI_METRICS |-> ("ams-hbase-env" :> site(AmsHbaseEnvRecommended))
                      @@ ("ams-hbase-site" :> site(AmsHbaseSiteRecommended))
                      @@ ("ams-site" :> site(AmsSiteRecommended))]

\* live trees of MAPREDUCE2: as recommended; a small heap; a small heap and a
\* small sort buffer; a heap flag with a unit that is none; a sort buffer that
\* is no number
MapredGood == ("mapred-site" :> site(MapredRecommended))
MapredLow ==
  ("mapred-site" :> site(("mapreduce.map.java.opts" :> <<"-", "X", "m", "x", "5", "1", "2", "m">>) @@ MapredRecommended))
MapredLowTwo ==
  ("mapred-site" :> site(("mapreduce.map.java.opts" :> <<"-", "X", "m", "x", "5", "1", "2", "m">>)
                         @@ ("mapreduce.task.io.sort.mb" :> <<"1", "0", "0">>) @@ MapredRecommended))
MapredBadUnit ==
  ("mapred-site" :> site(("mapreduce.map.java.opts" :> <<"-", "X", "m", "x", "5", "1", "2", "x">>) @@ MapredRecommended))
MapredNonNumeric ==
  ("mapred-site" :> site(("mapreduce.task.io.sort.mb" :> <<"a", "b", "c">>) @@ MapredRecommended))

\* live trees of YARN: as recommended; small memory; an allocation above its
\* maximum; an allocation that is no number; no cluster-env
clusterEnvSite == ("cluster-env" :> site(("user_group" :> <<"h", "a", "d", "o", "o", "p">>)))
YarnGood == ("yarn-site" :> site(YarnRecommended)) @@ clusterEnvSite
YarnLow ==
  ("yarn-site" :> site(("yarn.nodemanager.resource.memory-mb" :> <<"4", "0", "9", "6">>)
                       @@ YarnRecommended)) @@ clusterEnvSite
YarnOverMax ==
  ("yarn-site" :> site(("yarn.scheduler.maximum-allocation-mb" :> <<"9", "9", "9", "9", "9">>)
                       @@ ("yarn.scheduler.minimum-allocation-mb" :> <<"9", "0", "0", "0", ".", "5">>)
                       @@ YarnRecommended)) @@ clusterEnvSite
YarnNonNumeric ==
  ("yarn-site" :> site(("yarn.scheduler.maximum-allocation-mb" :> <<"l", "o", "t", "s">>)
                       @@ YarnRecommended)) @@ clusterEnvSite
YarnNoClusterEnv == ("yarn-site" :> site(YarnRecommended))

HdfsGood == ("hadoop-env" :> site(HadoopEnvRecommended))
HdfsLow == ("hadoop-env" :> site(("namenode_heapsize" :> <<"5", "1", "2">>) @@ HadoopEnvRecommended))

hbaseSiteSite == ("hbase-site" :> site(("hbase.superuser" :> <<"h", "b", "a", "s", "e">>)))
HbaseGood ==
  ("hbase-env" :> site(("hbase_user" :> <<"h", "b", "a", "s", "e">>) @@ HbaseEnvRecommended)) @@ hbaseSiteSite
HbaseLow ==
  ("hbase-env" :> site(("hbase_user" :> <<"h", "b", "a", "s", "e">>) @@ ("hbase_master_heapsize" :> <<"5", "1", "2">>)
                       @@ HbaseEnvRecommended)) @@ hbaseSiteSite

\* live config types of AMBARI_METRICS
amsEnvSite == ("ams-env" :> site(("metrics_collector_log_dir" :> <<"/", "v", "a", "r", "/", "l", "o", "g", "/", "a", "m", "s">>)))
amsSiteLive(op_mode) ==
  ("ams-site" :> site(("timeline.metrics.service.operation.mode" :> op_mode)))
amsHbaseSiteLive(rootdir) ==
  ("ams-hbase-site" :> site(("hbase.rootdir" :> rootdir)
                            @@ ("hbase.tmp.dir" :> <<"/", "v", "a", "r", "/", "l", "i", "b", "/", "a", "m", "s", "/", "h", "b", "a", "s", "e", "-", "t", "m", "p">>)
                            @@ ("hbase.cluster.distributed" :> <<"f", "a", "l", "s", "e">>)))
amsHbaseEnvLive(heap, xmn) ==
  ("ams-hbase-env" :> site(("hbase_master_heapsize" :> heap)
                           @@ ("hbase_master_xmn_size" :> xmn)
                           @@ ("hbase_regionserver_heapsize" :> <<"5", "1", "2">>)
                           @@ ("regionserver_xmn_size" :> <<"1", "0", "2">>)
                           @@ ("hbase_log_dir" :> <<"/", "v", "a", "r", "/", "l", "o", "g", "/", "a", "m", "s">>)))
\* all well; a wrong mode and a small heap; a wrong mode, a root dir on hdfs
\* without distributed mode and a small heap; a Xmn size below 12%
AmsGood ==
  amsSiteLive(<<"e", "m", "b", "e", "d", "d", "e", "d">>) @@ amsHbaseSiteLive(<<"f", "i", "l", "e", ":", "/", "/", "/", "v", "a", "r", "/", "l", "i", "b", "/", "a", "m", "s", "/", "h", "b", "a", "s", "e">>)
  @@ amsHbaseEnvLive(<<"1", "0", "2", "4">>, <<"2", "5", "6">>) @@ amsEnvSite
AmsTwo ==
  amsSiteLive(<<"b", "o", "g", "u", "s">>) @@ amsHbaseSiteLive(<<"f", "i", "l", "e", ":", "/", "/", "/", "v", "a", "r", "/", "l", "i", "b", "/", "a", "m", "s", "/", "h", "b", "a", "s", "e">>)
  @@ amsHbaseEnvLive(<<"5", "1", "2">>, <<"1", "6", "0">>) @@ amsEnvSite
AmsThree ==
  amsSiteLive(<<"b", "o", "g", "u", "s">>) @@ amsHbaseSiteLive(<<"h", "d", "f", "s", ":", "/", "/", "n", "n", ":", "8", "0", "2", "0", "/", "a", "m", "s", "h", "b", "a", "s", "e">>)
  @@ amsHbaseEnvLive(<<"5", "1", "2">>, <<"1", "6", "0">>) @@ amsEnvSite
AmsXmnOut ==
  amsSiteLive(<<"e", "m", "b", "e", "d", "d", "e", "d">>) @@ amsHbaseSiteLive(<<"f", "i", "l", "e", ":", "/", "/", "/", "v", "a", "r", "/", "l", "i", "b", "/", "a", "m", "s", "/", "h", "b", "a", "s", "e">>)
  @@ amsHbaseEnvLive(<<"1", "0", "2", "4">>, <<"6", "4">>) @@ amsEnvSite

ScenariosOf ==
  [HDFS |-> {HdfsGood, HdfsLow},
   MAPREDUCE2 |-> {MapredGood, MapredLow, MapredLowTwo, MapredBadUnit, MapredNonNumeric},
   YARN |-> {YarnGood, YarnLow, YarnOverMax, YarnNonNumeric, YarnNoClusterEnv},
   HBASE |-> {HbaseGood, HbaseLow},
   AMBARI_METRICS |-> {AmsGood, AmsTwo, AmsThree, AmsXmnOut}]

\* the installed services: lists of different services
ValidatedServiceLists ==
  { l \in SeqsUpTo(DOMAIN ScenariosOf, MaxServices) :
      \A i, j \in 1..Len(l) : l[i] = l[j] => i = j }

\* a service of the topology; the METRICS_COLLECTOR is on no host yet
validatedService(name) ==
  [service_name |-> name,
   components |-> IF name = "AMBARI_METRICS"
                  THEN << [component_name |-> "METRICS_COLLECTOR", hostnames |-> <<>>] >>
                  ELSE <<>>]

\* the union of the trees of a list
RECURSIVE mergeTrees(_)
mergeTrees(trees) == IF trees = <<>> THEN <<>> ELSE Head(trees) @@ mergeTrees(Tail(trees))

\* the recommended tree is what recommendConfigurations has given for the
\* installed services
InitValidate ==
  /\ hosts = <<>>
  /\ \E names \in ValidatedServiceLists :
       /\ \E live \in [1..Len(names) -> UNION {ScenariosOf[n] : n \in DOMAIN ScenariosOf}] :
            /\ \A i \in 1..Len(names) : live[i] \in ScenariosOf[names[i]]
            /\ services = ("configurations" :> mergeTrees(live))
                          @@ ("services" :> [i \in 1..Len(names) |->
                                               validatedService(names[i])])
       /\ configurations = mergeTrees([i \in 1..Len(names) |-> RecommendedOf[names[i]]])
  /\ clusterData = NoValue
  /\ items = <<>>
  /\ ret = NoValue
  /\ raised = ""
  /\ pc = "start"
  /\ login_defs = NoFile

\* items = getConfigurationsValidationItems(services, hosts)
GetConfigurationsValidationItems ==
  /\ pc = "start"
  /\ \E amsOrder \in IF "AMBARI_METRICS" \in Range(serviceNames(services))
                     THEN Perms(Range(amsDeclarationOrder)) ELSE {amsDeclarationOrder},
        siteOrder \in Perms(minMaxSites(services["configurations"], configurations)),
        propertyOrders \in minMaxPropertyOrders(services["configurations"], configurations) :
       LET out == getConfigurationsValidationItems(services, hosts, configurations,
                                                   amsOrder, siteOrder, propertyOrders)
       IN  items' = out.items /\ raised' = out.raised
  /\ pc' = "done"
  /\ UNCHANGED <<login_defs, hosts, services, clusterData, configurations, ret>>

NextValidate == GetConfigurationsValidationItems

SpecValidate == InitValidate /\ [][NextValidate]_vars

(***************************************************************************)
(* Properties of getConfigurationsValidationItems                          *)
(***************************************************************************)
validateLive == services["configurations"]
validateHasSite(tree, siteName) ==
  siteName \in DOMAIN validateLive /\ validateLive[siteName] = tree[siteName]

\* the live tree holds a malformed value: a heap flag with a unit that is
\* none, a text that is no number where the validator takes a number, a text
\* that is no number where a bound is published
malformedHeapFlag == validateHasSite(MapredBadUnit, "mapred-site")
malformedNumber == validateHasSite(MapredNonNumeric, "mapred-site")
malformedBounded == validateHasSite(YarnNonNumeric, "yarn-site")
\* and nothing else of it makes a validator raise
wellFormedElsewhere ==
  /\ ~ validateHasSite(AmsXmnOut, "ams-hbase-env")
  /\ "yarn-site" \in DOMAIN validateLive => "cluster-env" \in DOMAIN validateLive

findingOn(siteName, propertyName, level) ==
  \E i \in 1..Len(items) : /\ items[i]["config-type"] = siteName
                           /\ items[i]["config-name"] = propertyName
                           /\ items[i]["level"] = level

\* C9: a malformed value in the live tree (a heap flag whose unit is none, a
\* text that is no number) gives at most a finding on its own property: the
\* validation ends normally whatever the malformed value is.
C9_MalformedValueIsolated ==
  (pc = "done" /\ wellFormedElsewhere
     /\ (malformedHeapFlag \/ malformedNumber \/ malformedBounded))
    => raised = ""

\* the part of C9 that holds: a text that is no number, on a property without
\* published bound, is an ERROR finding on that property and nothing more
C9_NonNumericIsFinding ==
  (pc = "done" /\ wellFormedElsewhere /\ malformedNumber /\ ~ malformedBounded)
    => /\ raised = ""
       /\ findingOn("mapred-site", "mapreduce.task.io.sort.mb", "ERROR")

C9_WitnessHeapFlag ==
  pc = "done" /\ wellFormedElsewhere /\ malformedHeapFlag /\ raised = "KeyError"

C9_WitnessBounded ==
  pc = "done" /\ wellFormedElsewhere /\ malformedBounded /\ ~ malformedHeapFlag
  /\ raised = "ValueError"

C9_WitnessNonNumeric ==
  pc = "done" /\ wellFormedElsewhere /\ malformedNumber /\ ~ malformedBounded
  /\ Len(services["services"]) = 2 /\ Len(items) >= 2

\* a finding of the closing sweep over the published bounds
isSweep(item) ==
  item["message"].text \in {"Value is greater than the recommended maximum of {0} ",
                            "Value is less than the recommended minimum of {0} "}
siteServiceName ==
  ("hadoop-env" :> "HDFS") @@ ("mapred-site" :> "MAPREDUCE2") @@ ("yarn-site" :> "YARN")
  @@ ("hbase-env" :> "HBASE") @@ ("ams-hbase-site" :> "AMBARI_METRICS")
  @@ ("ams-hbase-env" :> "AMBARI_METRICS") @@ ("ams-site" :> "AMBARI_METRICS")
\* the place of the service of a finding in the list of services
servicePlace(item) ==
  CHOOSE i \in 1..Len(services["services"]) :
    services["services"][i].service_name = siteServiceName[item["config-type"]]
declarationPlace(item) ==
  CHOOSE i \in 1..Len(amsDeclarationOrder) : amsDeclarationOrder[i] = item["config-type"]
validated == pc = "done" /\ raised = ""

\* the findings of the validators come in the order of the list of services
findingsInServiceOrder ==
  \A i, j \in 1..Len(items) :
    (i < j /\ ~ isSweep(items[i]) /\ ~ isSweep(items[j]))
      => servicePlace(items[i]) <= servicePlace(items[j])
\* the findings of the sweep come after all others, each once
sweepLastAndOnce ==
  \A i, j \in 1..Len(items) :
    (i < j /\ isSweep(items[i])) => (isSweep(items[j]) /\ items[i] # items[j])
\* within AMBARI_METRICS, in the order the validators are declared in
findingsInDeclarationOrder ==
  \A i, j \in 1..Len(items) :
    (/\ i < j /\ ~ isSweep(items[i]) /\ ~ isSweep(items[j])
     /\ siteServiceName[items[i]["config-type"]] = "AMBARI_METRICS"
     /\ siteServiceName[items[j]["config-type"]] = "AMBARI_METRICS")
      => declarationPlace(items[i]) <= declarationPlace(items[j])
\* within a service, the findings of one config type stand together
findingsOfSiteTogether ==
  \A i, j, k \in 1..Len(items) :
    (/\ i < j /\ j < k /\ ~ isSweep(items[i]) /\ ~ isSweep(items[k])
     /\ items[i]["config-type"] = items[k]["config-type"])
      => (~ isSweep(items[j]) /\ items[j]["config-type"] = items[i]["config-type"])

\* C10 as stated: the findings are ordered by service in the order of the
\* list of services, within a service by config type in the order the
\* validators are declared in, and the findings of the sweep over the
\* published bounds come after all of them, each once.
C10_DeclarationOrder ==
  validated => (findingsInServiceOrder /\ findingsInDeclarationOrder /\ sweepLastAndOnce)

\* C10 amended: the findings are ordered by service in the order of the list
\* of services, within a service the findings of one config type stand
\* together (the config types in the order the validator dict iterates in),
\* and the findings of the sweep come after all of them, each once.
C10_FindingsOrder ==
  validated => (findingsInServiceOrder /\ findingsOfSiteTogether /\ sweepLastAndOnce)

\* two services with findings, AMBARI_METRICS with findings of three config
\* types out of declaration order, and findings of the sweep
C10_Witness ==
  /\ validated
  /\ serviceNames(services) = <<"AMBARI_METRICS", "YARN">>
  /\ Len(items) = 5
  /\ items[1]["config-type"] = "ams-hbase-env"
  /\ items[2]["config-type"] = "ams-site"
  /\ items[3]["config-type"] = "ams-hbase-site"
  /\ isSweep(items[4]) /\ isSweep(items[5])

(***************************************************************************)
(* Independence of the iteration order                                     *)
(***************************************************************************)
\* the tree recommendAmsConfigurations gives where the dict of mount points
\* iterates in the given order
amsTreeUnder(order) ==
  { recommendAmsConfigurations(<<>>, services, hosts, order, result).config :
      result \in SplitPointResults }

\* C8: the recommended tree is the same for identical inputs, whatever the
\* order the mount points are iterated in: the tree the run has given is the
\* tree of every iteration order.
C8_OrderIndependent ==
  (pc = "done" /\ raised = "")
    => \A order \in dictOrders(amsMountHost(services, hosts)) :
         configurations \in amsTreeUnder(order)

\* two mounts of equal space on the collector host, the second of the
\* inventory taken
C8_Witness ==
  /\ pc = "done"
  /\ raised = ""
  /\ amsCollectorNames = <<"h1">>
  /\ Len(hosts[1].disk_info) = 3
  /\ hosts[1].disk_info[2].available = hosts[1].disk_info[3].available
  /\ "hbase.rootdir" \in DOMAIN amsRecommendedHbaseSite
  /\ StartsWith(amsRecommendedHbaseSite["hbase.rootdir"], <<"f", "i", "l", "e", ":", "/", "/", "/", "g", "r", "i", "d", "/", "2", "/">>)

(***************************************************************************)
(* Inputs of validatorLessThenDefaultValue                                 *)
(***************************************************************************)
\* Values with what they mean: whether they are a well-formed integer (digits
\* only), the number they are then, and for the others the number that their
\* digits alone spell (-1 if they hold no digit)
LessTable ==
  { [text |-> <<"5", "1", "2">>, wellFormed |-> TRUE, num |-> 512],
    [text |-> <<"1", "0", "2", "4">>, wellFormed |-> TRUE, num |-> 1024],
    [text |-> <<"2", "0", "4", "8">>, wellFormed |-> TRUE, num |-> 2048],
    [text |-> <<"0">>, wellFormed |-> TRUE, num |-> 0],
    [text |-> <<"0", "0", "7">>, wellFormed |-> TRUE, num |-> 7],
    [text |-> <<>>, wellFormed |-> FALSE, num |-> -1],
    [text |-> <<"a", "b", "c">>, wellFormed |-> FALSE, num |-> -1],
    [text |-> <<"m">>, wellFormed |-> FALSE, num |-> -1],
    [text |-> <<"-", "5">>, wellFormed |-> FALSE, num |-> 5],
    [text |-> <<"+", "2", "0", "4", "8">>, wellFormed |-> FALSE, num |-> 2048],
    [text |-> <<"3", ".", "5">>, wellFormed |-> FALSE, num |-> 35],
    [text |-> <<"1", "2", "a", "b", "c">>, wellFormed |-> FALSE, num |-> 12],
    [text |-> <<"1", ",", "0", "2", "4">>, wellFormed |-> FALSE, num |-> 1024],
    [text |-> <<"4", "g">>, wellFormed |-> FALSE, num |-> 4] }
LessValues == {v.text : v \in LessTable}
lessMeaning(text) == CHOOSE v \in LessTable : v.text = text
LessRecommended == { <<"1", "0", "2", "4">>, <<"1", "0">>, <<"0">>, <<"a", "b", "c">> }
lessProperty == "yarn.nodemanager.resource.memory-mb"

InitLess ==
  /\ hosts = <<>>
  /\ \E live \in LessValues \cup {NoneStr} :
       services = [services |-> <<>>,
                   configurations |->
                     siteTree("yarn-site",
                              IF live = NoneStr THEN <<>> ELSE (lessProperty :> live))]
  /\ clusterData = NoValue
  /\ \E rec \in LessRecommended \cup {NoneStr} :
       configurations = siteTree("yarn-site",
                                 IF rec = NoneStr THEN <<>> ELSE (lessProperty :> rec))
  /\ items = <<>>
  /\ ret = NoValue
  /\ raised = ""
  /\ pc = "start"
  /\ login_defs = NoFile

\* ret = validatorLessThenDefaultValue(properties, recommendedDefaults, propertyName)
ValidatorLessThenDefaultValue ==
  /\ pc = "start"
  /\ ret' = validatorLessThenDefaultValue(services.configurations["yarn-site"].properties,
                                          configurations["yarn-site"].properties,
                                          lessProperty)
  /\ pc' = "done"
  /\ UNCHANGED <<login_defs, hosts, services, clusterData, configurations, items, raised>>

NextLess == ValidatorLessThenDefaultValue

SpecLess == InitLess /\ [][NextLess]_vars

lessLive == services.configurations["yarn-site"].properties
lessRecommendedDefaults == configurations["yarn-site"].properties
\* the property has a recommended value, a well-formed number
lessHasRecommended ==
  /\ lessProperty \in DOMAIN lessRecommendedDefaults
  /\ IsDigits(lessRecommendedDefaults[lessProperty])
lessRecommendedNum == intDigits(lessRecommendedDefaults[lessProperty])
lessIsError(text) == ret # NoValue /\ ret.level = "ERROR" /\ ret.message.text = text
lessIsWarn == ret # NoValue /\ ret.level = "WARN"

\* C11 as claimed: for a property with a recommended value, a missing live
\* value is the ERROR 'Value should be set', a live value that is no
\* well-formed integer (empty, alphabetic, signed, decimal, digits mixed with
\* other characters) is the ERROR 'Value should be integer', and a well-formed
\* one is a WARN iff it is below the recommended number, nothing otherwise.
C11_LessAsClaimed ==
  (pc = "done" /\ lessHasRecommended) =>
    IF lessProperty \notin DOMAIN lessLive THEN lessIsError("Value should be set")
    ELSE LET live == lessMeaning(lessLive[lessProperty])
         IN  IF ~live.wellFormed THEN lessIsError("Value should be integer")
             ELSE IF live.num < lessRecommendedNum THEN lessIsWarn
             ELSE ret = NoValue

\* What holds of the code: the ERROR 'Value should be integer' is for the
\* values without any digit; every other value counts as the number its
\* digits spell.
C11_LessOfDigits ==
  (pc = "done" /\ lessHasRecommended) =>
    IF lessProperty \notin DOMAIN lessLive THEN lessIsError("Value should be set")
    ELSE LET live == lessMeaning(lessLive[lessProperty])
         IN  IF live.num = -1 THEN lessIsError("Value should be integer")
             ELSE IF live.num < lessRecommendedNum THEN lessIsWarn
             ELSE ret = NoValue

\* 3.5 against 10: read as 35, no finding
C11_WitnessDecimal ==
  /\ pc = "done"
  /\ lessHasRecommended
  /\ lessProperty \in DOMAIN lessLive
  /\ lessLive[lessProperty] = <<"3", ".", "5">>
  /\ lessRecommendedNum = 10
  /\ ret = NoValue

\* abc against 1024: the ERROR
C11_WitnessAlphabetic ==
  /\ pc = "done"
  /\ lessHasRecommended
  /\ lessProperty \in DOMAIN lessLive
  /\ lessLive[lessProperty] = <<"a", "b", "c">>
  /\ lessIsError("Value should be integer")

(***************************************************************************)
(* Properties of the cluster summary                                       *)
(***************************************************************************)
\* the two tables as the claim lists them
claimedReserved(ram) ==
  IF ram <= 4 THEN <<1, 1>> ELSE IF ram <= 8 THEN <<2, 1>> ELSE IF ram <= 16 THEN <<2, 2>>
  ELSE IF ram <= 24 THEN <<4, 4>> ELSE IF ram <= 48 THEN <<6, 8>>
  ELSE IF ram <= 64 THEN <<8, 8>> ELSE IF ram <= 72 THEN <<8, 8>>
  ELSE IF ram <= 96 THEN <<12, 16>> ELSE IF ram <= 128 THEN <<24, 24>>
  ELSE IF ram <= 256 THEN <<32, 32>> ELSE <<64, 64>>
claimedMinContainerSize(ram) ==
  IF ram <= 4 THEN 256 ELSE IF ram <= 8 THEN 512 ELSE IF ram <= 24 THEN 1024 ELSE 2048

\* C12: for every ram of the reference host exactly one condition of the
\* 11-bucket table and exactly one of the 4-bucket table is true, the lookup
\* does not fail, and reservedRam, hbaseRam and minContainerSize are those the
\* claim lists for the bucket.
C12_BucketLookups ==
  pc = "done" =>
    /\ raised = ""
    /\ Cardinality(TrueKeys(ramIndexConds(clusterData.ram))) = 1
    /\ Cardinality(TrueKeys(minContainerSizeConds(clusterData.ram))) = 1
    /\ <<clusterData.reservedRam, clusterData.hbaseRam>> = claimedReserved(clusterData.ram)
    /\ clusterData.minContainerSize = claimedMinContainerSize(clusterData.ram)

\* a host on the upper edge of the bucket (4, 8]
C12_Witness ==
  /\ pc = "done"
  /\ clusterData.ram = 8
  /\ clusterData.reservedRam = 2
  /\ clusterData.hbaseRam = 1
  /\ clusterData.minContainerSize = 512

\* the inventory hosts that run NODEMANAGER of YARN
summaryNodeManagers ==
  { i \in 1..Len(hosts) :
      \E s \in Range(services.services) :
        /\ s.service_name = "YARN"
        /\ \E c \in Range(s.components) :
             c.component_name = "NODEMANAGER" /\ hosts[i].host_name \in Range(c.hostnames) }

\* C13: with a NODEMANAGER host in the inventory the reference host is a
\* NODEMANAGER host of least total_mem and is recorded as
\* referenceNodeManagerHost too; without one the reference host is the first
\* host of the inventory and no referenceNodeManagerHost is recorded; cpu,
\* disk and ram are those of the reference host.
C13_ReferenceHost ==
  (pc = "done" /\ Len(hosts) > 0) =>
    /\ raised = ""
    /\ "referenceHost" \in DOMAIN clusterData
    /\ IF summaryNodeManagers # {}
       THEN /\ \E i \in summaryNodeManagers : clusterData.referenceHost = hosts[i]
            /\ \A i \in summaryNodeManagers :
                 clusterData.referenceHost.total_mem <= hosts[i].total_mem
            /\ "referenceNodeManagerHost" \in DOMAIN clusterData
            /\ clusterData.referenceNodeManagerHost = clusterData.referenceHost
       ELSE /\ clusterData.referenceHost = hosts[1]
            /\ "referenceNodeManagerHost" \notin DOMAIN clusterData
    /\ clusterData.cpu = clusterData.referenceHost.cpu_count
    /\ clusterData.disk = Len(clusterData.referenceHost.disk_info)
    /\ clusterData.ram = clusterData.referenceHost.total_mem \div KBperGB

\* two NODEMANAGER hosts, the second the smaller
C13_Witness ==
  /\ pc = "done"
  /\ Len(hosts) = 2
  /\ summaryNodeManagers = {1, 2}
  /\ hosts[2].total_mem < hosts[1].total_mem
  /\ clusterData.referenceNodeManagerHost = hosts[2]

\* C14: ramPerContainer is totalAvailableRam / containers, cut to the largest
\* multiple of 512 below it when the quotient is above 1024; mapMemory is its
\* floor, reduceMemory is ramPerContainer, amMemory the larger of the two;
\* mapMemory <= reduceMemory = amMemory and containers * ramPerContainer <=
\* totalAvailableRam.
C14_ContainerMemory ==
  pc = "done" =>
    LET total == clusterData.totalAvailableRam
        containers == clusterData.containers
        r == clusterData.ramPerContainer
        am == clusterData.amMemory
    IN  /\ raised = ""
        /\ r.den > 0
        /\ IF total > 1024 * containers
           THEN /\ r.den = 1
                /\ r.num % 512 = 0
                /\ r.num * containers <= total
                /\ (r.num + 512) * containers > total
           ELSE r.num * containers = total * r.den
        /\ clusterData.mapMemory * r.den <= r.num
        /\ (clusterData.mapMemory + 1) * r.den > r.num
        /\ clusterData.reduceMemory = r
        /\ am.num * r.den = r.num * am.den
        /\ containers * r.num <= total * r.den

\* a quotient above 1024 that is no multiple of 512
C14_Witness ==
  /\ pc = "done"
  /\ raised = ""
  /\ clusterData.totalAvailableRam > 1024 * clusterData.containers
  /\ clusterData.ramPerContainer.num * clusterData.containers < clusterData.totalAvailableRam
  /\ clusterData.mapMemory = clusterData.ramPerContainer.num

(***************************************************************************)
(* get_system_min_uid                                                      *)
(***************************************************************************)
\* str.find: the index, from 0, of the first place of sub in s, or -1
find(s, sub) ==
  LET at == {i \in 1..(Len(s) - Len(sub) + 1) : SubSeq(s, i, i + Len(sub) - 1) = sub}
  IN  IF at = {} THEN -1 ELSE (CHOOSE i \in at : \A j \in at : i <= j) - 1

\* str.split('\n')
RECURSIVE splitLines(_)
splitLines(text) ==
  LET nl == find(text, <<"\n">>)
  IN  IF nl = -1 THEN <<text>>
      ELSE <<SubSeq(text, 1, nl)>> \o splitLines(SubSeq(text, nl + 2, Len(text)))

uid_min_tag == <<"U", "I", "D", "_", "M", "I", "N">>
comment_tag == <<"#">>
uid_default == <<"1", "0", "0", "0">>

\* the lines with the tag, those left out where the tag stands in a comment
uidLinesMutNoCommentFilter(data) ==
  SelectSeq(data, LAMBDA x : find(x, uid_min_tag) >= 0)
uidLines(data) ==
  SelectSeq(data, LAMBDA x : /\ find(x, uid_min_tag) >= 0
                             /\ \/ find(x, comment_tag) > find(x, uid_min_tag)
                                \/ find(x, comment_tag) = -1)

get_system_min_uid(file) ==
  LET uid == uidLines(splitLines(file.text))
      line == uid[1]
      comment == find(line, comment_tag)
      tag == find(line, uid_min_tag)
      uid_tag == tag + Len(uid_min_tag)
      uid_min == IF ~file.exists \/ Len(uid) = 0 THEN uid_default
                 ELSE IF comment = -1 THEN strip(SubSeq(line, uid_tag + 1, Len(line)))
                 ELSE IF comment > tag THEN strip(SubSeq(line, uid_tag + 1, comment))
                 ELSE uid_default
  IN  IF isIntText(uid_min) THEN uid_min ELSE uid_default

(***************************************************************************)
(* Inputs of get_system_min_uid                                            *)
(***************************************************************************)
MaxLines == 2

\* Lines with what they mean: "skip" without the tag or with the tag in a
\* comment, "value" with an integer after the tag, "bad" with another text
LoginDefsTable ==
  { [line |-> <<"U", "I", "D", "_", "M", "I", "N", " ", "5", "0", "0">>, kind |-> "value", value |-> <<"5", "0", "0">>],
    [line |-> <<"U", "I", "D", "_", "M", "I", "N">> \o <<"\t", "\t", " ">> \o <<"1", "0", "0", "0">> \o <<"\r">>,
     kind |-> "value", value |-> <<"1", "0", "0", "0">>],
    [line |-> <<"U", "I", "D", "_", "M", "I", "N", " ", " ", " ", "2", "0", "0", "0", " ", "#", " ", "m", "i", "n", " ", "u", "i", "d">>, kind |-> "value", value |-> <<"2", "0", "0", "0">>],
    [line |-> <<"S", "Y", "S", "_", "U", "I", "D", "_", "M", "I", "N", " ", "1", "0", "0">>, kind |-> "value", value |-> <<"1", "0", "0">>],
    [line |-> <<"U", "I", "D", "_", "M", "I", "N", " ", "-", "5">>, kind |-> "value", value |-> <<"-", "5">>],
    [line |-> <<"#", "U", "I", "D", "_", "M", "I", "N", " ", "3", "0", "0">>, kind |-> "skip", value |-> <<>>],
    [line |-> <<"F", "O", "O", " ", "#", " ", "U", "I", "D", "_", "M", "I", "N", " ", "7">>, kind |-> "skip", value |-> <<>>],
    [line |-> <<"U", "I", "D", "_", "M", "A", "X", " ", "6", "0", "0", "0", "0">>, kind |-> "skip", value |-> <<>>],
    [line |-> <<>>, kind |-> "skip", value |-> <<>>],
    [line |-> <<"U", "I", "D", "_", "M", "I", "N">>, kind |-> "bad", value |-> <<>>],
    [line |-> <<"U", "I", "D", "_", "M", "I", "N", "=", "5", "0", "0">>, kind |-> "bad", value |-> <<>>],
    [line |-> <<"U", "I", "D", "_", "M", "I", "N", " ", "5", " ", "0", "0">>, kind |-> "bad", value |-> <<>>] }

\* the text of a file of these lines
RECURSIVE joinLines(_)
joinLines(lines) ==
  IF lines = <<>> THEN <<>>
  ELSE IF Len(lines) = 1 THEN lines[1].line
  ELSE lines[1].line \o <<"\n">> \o joinLines(Tail(lines))
LoginDefsContents == SeqsUpTo(LoginDefsTable, MaxLines)
LoginDefsFiles ==
  {NoFile} \cup { [exists |-> TRUE, text |-> joinLines(l)] : l \in LoginDefsContents }

InitUid ==
  /\ login_defs \in LoginDefsFiles
  /\ hosts = <<>>
  /\ services = NoValue
  /\ clusterData = NoValue
  /\ configurations = NoValue
  /\ items = <<>>
  /\ ret = NoValue
  /\ raised = ""
  /\ pc = "start"

\* ret = self.get_system_min_uid()
GetSystemMinUid ==
  /\ pc = "start"
  /\ ret' = get_system_min_uid(login_defs)
  /\ pc' = "done"
  /\ UNCHANGED <<login_defs, hosts, services, clusterData, configurations, items, raised>>

NextUid == GetSystemMinUid

SpecUid == InitUid /\ [][NextUid]_vars

\* the lines the file was written with
loginDefsLines ==
  IF login_defs.exists
  THEN CHOOSE l \in LoginDefsContents : joinLines(l) = login_defs.text
  ELSE <<>>
\* the texts that are an integer: digits behind at most one sign
isIntegerText(s) ==
  \/ IsDigits(s)
  \/ Len(s) > 1 /\ s[1] \in {"-", "+"} /\ IsDigits(Tail(s))

putValue(out, configType, key, value, svcs) ==
  IF out.raised # "" THEN out
  ELSE IF appendPropertyRaises(configType, key, svcs)
  THEN [config |-> out.config, raised |-> "KeyError"]
  ELSE [config |-> appendProperty(out.config, configType, key, value, svcs), raised |-> ""]

\* int(s) of a str: digits with a sign, blanks around them
intOfText(s) ==
  LET t == strip(s)
  IN  IF t[1] = "-" THEN 0 - intDigits(Tail(t)) ELSE intDigits(unsigned(t))

\* min(clusterData['referenceNodeManagerHost']['total_mem']/1024, 1048576)
nodemanagerMinRamOf(profile) ==
  IF "referenceNodeManagerHost" \in DOMAIN profile
  THEN Min(profile.referenceNodeManagerHost.total_mem \div 1024, 1048576)
  ELSE 1048576

\* int(round(min(containers * ramPerContainer, nodemanagerMinRam)))
yarnMemoryMutNoHostCap(profile) ==
  LET product == Rat(profile.containers * profile.ramPerContainer.num,
                     profile.ramPerContainer.den)
  IN  IF RatGt(product, 1048576) THEN 1048576 ELSE roundRat(product.num, product.den)
yarnMemory(profile) ==
  LET product == Rat(profile.containers * profile.ramPerContainer.num,
                     profile.ramPerContainer.den)
  IN  IF RatGt(product, nodemanagerMinRamOf(profile)) THEN nodemanagerMinRamOf(profile)
      ELSE roundRat(product.num, product.den)

containerExecutorGroupOf(svcs) ==
  IF /\ "cluster-env" \in DOMAIN svcs["configurations"]
     /\ "user_group" \in DOMAIN svcs["configurations"]["cluster-env"]["properties"]
  THEN svcs["configurations"]["cluster-env"]["properties"]["user_group"]
  ELSE <<"h", "a", "d", "o", "o", "p">>

recommendYARNConfigurations(config, profile, svcs, file) ==
  LET c0 == [config |-> putProperty(putProperty(config, "yarn-site"), "yarn-env"),
             raised |-> ""]
      c1 == putValue(c0, "yarn-site", "yarn.nodemanager.resource.memory-mb",
                     intValue(yarnMemory(profile)), svcs)
      c2 == putValue(c1, "yarn-site", "yarn.scheduler.minimum-allocation-mb",
                     intValue(RatFloor(profile.ramPerContainer)), svcs)
      held == c2.config["yarn-site"]["properties"]["yarn.nodemanager.resource.memory-mb"]
      c3 == IF c2.raised # "" THEN c2
            ELSE IF ~isIntText(held) THEN [config |-> c2.config, raised |-> "ValueError"]
            ELSE putValue(c2, "yarn-site", "yarn.scheduler.maximum-allocation-mb",
                          intValue(intOfText(held)), svcs)
      c4 == putValue(c3, "yarn-env", "min_user_id", strValue(get_system_min_uid(file)), svcs)
  IN  putValue(c4, "yarn-site", "yarn.nodemanager.linux-container-executor.group",
               strValue(containerExecutorGroupOf(svcs)), svcs)

(***************************************************************************)
(* Inputs of recommendYARNConfigurations                                   *)
(***************************************************************************)
\* one host: 100 MB, 300 MB, 5 GB, 20 GB or 1200 GB of memory, 1 or 6 disks
YarnHostLists ==
  { << mkHost(1, [total_mem |-> mem, cpu_count |-> 8, disks |-> d]) >> :
      mem \in {102400, 307200, 5 * KBperGB, 20 * KBperGB, 1200 * KBperGB}, d \in {1, 6} }
\* YARN with its NODEMANAGER on the host or on none
YarnServiceLists ==
  { << [service_name |-> "YARN",
        components |-> << mkComponent("NODEMANAGER", nm) >>] >> : nm \in {<<>>, <<"h1">>} }
YarnKeys ==
  { [type |-> "yarn-site", name |-> "yarn.nodemanager.resource.memory-mb"],
    [type |-> "yarn-site", name |-> "yarn.scheduler.minimum-allocation-mb"],
    [type |-> "yarn-site", name |-> "yarn.scheduler.maximum-allocation-mb"],
    [type |-> "yarn-env", name |-> "min_user_id"] }
YarnChangedLists == SeqsUpTo(YarnKeys, MaxChanged)
\* the live values of yarn-site and yarn-env: none, set by the user, or set
\* with a worker memory that is no number
yarnLive(memory) ==
  ("yarn-site" :> site(("yarn.nodemanager.resource.memory-mb" :> memory)
                       @@ ("yarn.scheduler.minimum-allocation-mb" :> <<"9", "9", "9">>)
                       @@ ("yarn.scheduler.maximum-allocation-mb" :> <<"7", "7", "7">>)))
  @@ ("yarn-env" :> site(("min_user_id" :> <<"4", "0", "0">>)))
YarnLiveTrees ==
  { tree @@ env : tree \in {<<>>, yarnLive(<<"4", "0", "9", "6">>), yarnLive(<<"4", "g">>)},
                  env \in {<<>>, ("cluster-env" :> site(("user_group" :> <<"u", "s", "e", "r", "s">>)))} }
YarnLoginDefs == { NoFile, [exists |-> TRUE, text |-> <<"U", "I", "D", "_", "M", "I", "N", " ", "5", "0", "0">>] }

\* the profile is that of the inventory and the topology
InitYarn ==
  /\ login_defs \in YarnLoginDefs
  /\ hosts \in YarnHostLists
  /\ \E svcs \in YarnServiceLists, live \in YarnLiveTrees, changed \in YarnChangedLists :
       services = ("changed-configurations" :> changed) @@ ("configurations" :> live)
                  @@ ("services" :> svcs)
  /\ clusterData = getConfigurationClusterSummary(serviceNames(services), hosts, <<>>,
                                                  services)
  /\ configurations = <<>>
  /\ items = <<>>
  /\ ret = NoValue
  /\ raised = ""
  /\ pc = "start"

\* recommendYARNConfigurations(configurations, clusterData, services, hosts)
RecommendYARNConfigurations ==
  /\ pc = "start"
  /\ LET out == recommendYARNConfigurations(configurations, clusterData, services, login_defs)
     IN  configurations' = out.config /\ raised' = out.raised
  /\ pc' = "done"
  /\ UNCHANGED <<login_defs, hosts, services, clusterData, items, ret>>

NextYarn == RecommendYARNConfigurations

SpecYarn == InitYarn /\ [][NextYarn]_vars

yarnChanged(name) ==
  \E i \in 1..Len(services["changed-configurations"]) :
    services["changed-configurations"][i].name = name
yarnChangedHasLive ==
  \A i \in 1..Len(services["changed-configurations"]) :
    LET c == services["changed-configurations"][i]
    IN  c.type \in DOMAIN services["configurations"]
yarnSite == configurations["yarn-site"]["properties"]
\* min(containers * ramPerContainer, 1048576, total_mem / 1024 of the
\* NODEMANAGER host when there is one), as a whole number
claimedWorkerMemory ==
  LET r == clusterData.ramPerContainer
      hostCap == IF services.services[1].components[1].hostnames # <<>>
                 THEN hosts[1].total_mem \div 1024 ELSE 1048576
      cap == IF hostCap < 1048576 THEN hostCap ELSE 1048576
  IN  IF clusterData.containers * r.num <= cap * r.den
      THEN (2 * clusterData.containers * r.num + r.den) \div (2 * r.den)
      ELSE cap

\* C15 as claimed: for every profile and every changed-config list that does
\* not name the max-allocation property, the recommender ends normally, the
\* computed yarn.nodemanager.resource.memory-mb is min(containers *
\* ramPerContainer, 1048576, total_mem / 1024 of the reference NODEMANAGER
\* host), minimum-allocation-mb is the container size and
\* maximum-allocation-mb is that computed worker memory.
C15_YarnAsClaimed ==
  (pc = "done" /\ ~yarnChanged("yarn.scheduler.maximum-allocation-mb")) =>
    /\ raised = ""
    /\ ~yarnChanged("yarn.nodemanager.resource.memory-mb") =>
         yarnSite["yarn.nodemanager.resource.memory-mb"] = str(claimedWorkerMemory)
    /\ ~yarnChanged("yarn.scheduler.minimum-allocation-mb") =>
         yarnSite["yarn.scheduler.minimum-allocation-mb"]
           = str(clusterData.ramPerContainer.num \div clusterData.ramPerContainer.den)
    /\ yarnSite["yarn.scheduler.maximum-allocation-mb"] = str(claimedWorkerMemory)

\* What holds of the code: the same where the list names neither the
\* max-allocation property nor the worker memory and every key it names has
\* a live value; where it names the worker memory, the max-allocation is the
\* live worker memory if that is an integer, and the recommender raises
\* ValueError if it is not.
C15_YarnWhereUntouched ==
  (pc = "done" /\ ~yarnChanged("yarn.scheduler.maximum-allocation-mb")
     /\ yarnChangedHasLive) =>
    IF ~yarnChanged("yarn.nodemanager.resource.memory-mb")
    THEN /\ raised = ""
         /\ yarnSite["yarn.nodemanager.resource.memory-mb"] = str(claimedWorkerMemory)
         /\ ~yarnChanged("yarn.scheduler.minimum-allocation-mb") =>
              yarnSite["yarn.scheduler.minimum-allocation-mb"]
                = str(clusterData.ramPerContainer.num \div clusterData.ramPerContainer.den)
         /\ yarnSite["yarn.scheduler.maximum-allocation-mb"] = str(claimedWorkerMemory)
    ELSE LET live == services["configurations"]["yarn-site"]["properties"]
                       ["yarn.nodemanager.resource.memory-mb"]
         IN  IF IsDigits(live)
             THEN raised = "" /\ yarnSite["yarn.scheduler.maximum-allocation-mb"] = live
             ELSE raised = "ValueError"

\* the worker memory changed by the user to 4g
C15_WitnessValueError ==
  /\ pc = "done"
  /\ yarnChanged("yarn.nodemanager.resource.memory-mb")
  /\ yarnChangedHasLive
  /\ yarnSite["yarn.nodemanager.resource.memory-mb"] = <<"4", "g">>
  /\ raised = "ValueError"
  /\ "yarn.scheduler.maximum-allocation-mb" \notin DOMAIN yarnSite

\* each of the three operands of min decides for some host
C15_WitnessHostCap ==
  /\ pc = "done" /\ raised = "" /\ services["changed-configurations"] = <<>>
  /\ yarnSite["yarn.nodemanager.resource.memory-mb"] = <<"3", "0", "0">>
C15_WitnessCap ==
  /\ pc = "done" /\ raised = "" /\ services["changed-configurations"] = <<>>
  /\ yarnSite["yarn.scheduler.maximum-allocation-mb"] = <<"1", "0", "4", "8", "5", "7", "6">>
C15_WitnessProduct ==
  /\ pc = "done" /\ raised = "" /\ services["changed-configurations"] = <<>>
  /\ clusterData.ram = 20
  /\ yarnSite["yarn.scheduler.maximum-allocation-mb"] = str(claimedWorkerMemory)
  /\ claimedWorkerMemory < 20 * 1024

(***************************************************************************)
(* recommendHadoopProxyUsers                                               *)
(***************************************************************************)
\* a str as a dict key
RECURSIVE textOf(_)
textOf(s) == IF s = <<>> THEN "" ELSE Head(s) \o textOf(Tail(s))
\* the characters of a host name
hostNameChars == ("h1" :> <<"h", "1">>) @@ ("h2" :> <<"h", "2">>) @@ ("h3" :> <<"h", "3">>) @@ ("h4" :> <<"h", "4">>)

\* getOldValue: the old_value of the first entry of changed-configurations
\* for the property that has one, None if there is none
getOldValue(svcs, configType, propertyName) ==
  LET changedConfigs == changedConfigsOf(svcs)
      found == SelectSeq(changedConfigs,
                         LAMBDA c : /\ c.type = configType /\ c.name = propertyName
                                    /\ "old_value" \in DOMAIN c)
  IN  IF found = <<>> THEN NoneStr ELSE found[1].old_value

getHostWithComponent(serviceName, componentName, svcs, hostItems) ==
  LET componentHosts == getHostsWithComponent(serviceName, componentName, svcs, hostItems)
  IN  IF Len(componentHosts) > 0 THEN componentHosts[1] ELSE NoValue

liveHas(svcs, configType, key) ==
  /\ configType \in DOMAIN svcs["configurations"]
  /\ key \in DOMAIN svcs["configurations"][configType]["properties"]
liveOf(svcs, configType, key) == svcs["configurations"][configType]["properties"][key]
\* the key is there and its value is not None
liveSet(svcs, configType, key) ==
  liveHas(svcs, configType, key) /\ liveOf(svcs, configType, key) # NoneStr

\* users[name] = {...} unless the name is in users
proxyUser(name, propertyHosts, propertyGroups, config, propertyName) ==
  [name |-> name, propertyHosts |-> propertyHosts, propertyGroups |-> propertyGroups,
   config |-> config, propertyName |-> propertyName]
collectMutOverwrite(users, user) ==
  IF \E i \in 1..Len(users) : users[i].name = user.name
  THEN [i \in 1..Len(users) |-> IF users[i].name = user.name THEN user ELSE users[i]]
  ELSE Append(users, user)
collect(users, user) ==
  IF \E i \in 1..Len(users) : users[i].name = user.name THEN users ELSE Append(users, user)

\* the dict users, in the order the entries are made in
proxyUsers(svcs, hostItems) ==
  LET servicesList == Range(serviceNames(svcs))
      star == <<"*">>
      hasGroup == liveSet(svcs, "hadoop-env", "proxyuser_group")
      oozieHost == getHostWithComponent("OOZIE", "OOZIE_SERVER", svcs, hostItems)
      hiveHost == getHostWithComponent("HIVE", "HIVE_SERVER", svcs, hostItems)
      u1 == IF "HDFS" \in servicesList /\ liveSet(svcs, "hadoop-env", "hdfs_user")
            THEN << proxyUser(liveOf(svcs, "hadoop-env", "hdfs_user"), star, star,
                              "hadoop-env", "hdfs_user") >>
            ELSE <<>>
      u2 == IF /\ "OOZIE" \in servicesList /\ liveSet(svcs, "oozie-env", "oozie_user")
               /\ oozieHost # NoValue
            THEN collect(u1, proxyUser(liveOf(svcs, "oozie-env", "oozie_user"),
                                       hostNameChars[oozieHost.public_host_name], star,
                                       "oozie-env", "oozie_user"))
            ELSE u1
      hive == /\ "HIVE" \in servicesList /\ liveHas(svcs, "hive-env", "hive_user")
              /\ liveHas(svcs, "hive-env", "webhcat_user") /\ hiveHost # NoValue
      u3 == IF hive /\ liveOf(svcs, "hive-env", "hive_user") # NoneStr
            THEN collect(u2, proxyUser(liveOf(svcs, "hive-env", "hive_user"),
                                       hostNameChars[hiveHost.public_host_name], star,
                                       "hive-env", "hive_user"))
            ELSE u2
      u4 == IF hive /\ hasGroup /\ liveOf(svcs, "hive-env", "webhcat_user") # NoneStr
            THEN collect(u3, proxyUser(liveOf(svcs, "hive-env", "webhcat_user"),
                                       hostNameChars[hiveHost.public_host_name],
                                       liveOf(svcs, "hadoop-env", "proxyuser_group"),
                                       "hive-env", "webhcat_user"))
            ELSE u3
  IN  IF /\ "FALCON" \in servicesList /\ liveSet(svcs, "falcon-env", "falcon_user")
         /\ hasGroup
      THEN collect(u4, proxyUser(liveOf(svcs, "falcon-env", "falcon_user"), star,
                                 liveOf(svcs, "hadoop-env", "proxyuser_group"),
                                 "falcon-env", "falcon_user"))
      ELSE u4

proxyHosts(name) == "hadoop.proxyuser." \o textOf(name) \o ".hosts"
proxyGroups(name) == "hadoop.proxyuser." \o textOf(name) \o ".groups"

\* the closure appendPropertyAttribute(key, attribute, attributeValue) of
\* putPropertyAttribute(config, configType)
appendPropertyAttribute(config, configType, key, attribute, attributeValue) ==
  LET c1 == IF "property_attributes" \in DOMAIN config[configType] THEN config
            ELSE [config EXCEPT ![configType] = ("property_attributes" :> <<>>) @@ @]
      c2 == IF key \in DOMAIN c1[configType]["property_attributes"] THEN c1
            ELSE [c1 EXCEPT ![configType]["property_attributes"] = (key :> <<>>) @@ @]
  IN  [c2 EXCEPT ![configType]["property_attributes"][key] =
         (attribute :> attributeValue) @@ @]

forcedEntry(name) == [type |-> "core-site", name |-> name]

\* the services payload with its forced-configurations list
withForcedMutDropChanged(svcs, forced) ==
  ("forced-configurations" :> forced) @@ ("changed-configurations" :> <<>>) @@ svcs
withForced(svcs, forced) == ("forced-configurations" :> forced) @@ svcs

\* one turn of the loop over users.iteritems()
proxyUserTurnMutNoForce(out, user, svcs) ==
  LET w1 == putValue(out, "core-site", proxyHosts(user.name),
                     strValue(user.propertyHosts), svcs)
      w2 == putValue(w1, "core-site", proxyGroups(user.name),
                     strValue(user.propertyGroups), svcs)
      userOldValue == getOldValue(svcs, user.config, user.propertyName)
  IN  IF w2.raised # "" \/ userOldValue = NoneStr \/ userOldValue = user.name
      THEN [config |-> w2.config, raised |-> w2.raised, forced |-> out.forced]
      ELSE [config |-> appendPropertyAttribute(
                         appendPropertyAttribute(w2.config, "core-site",
                                                 proxyHosts(userOldValue), "delete", <<"t", "r", "u", "e">>),
                         "core-site", proxyGroups(userOldValue), "delete", <<"t", "r", "u", "e">>),
            raised |-> "",
            forced |-> out.forced]
proxyUserTurn(out, user, svcs) ==
  LET w1 == putValue(out, "core-site", proxyHosts(user.name),
                     strValue(user.propertyHosts), svcs)
      w2 == putValue(w1, "core-site", proxyGroups(user.name),
                     strValue(user.propertyGroups), svcs)
      userOldValue == getOldValue(svcs, user.config, user.propertyName)
  IN  IF w2.raised # "" \/ userOldValue = NoneStr \/ userOldValue = user.name
      THEN [config |-> w2.config, raised |-> w2.raised, forced |-> out.forced]
      ELSE [config |-> appendPropertyAttribute(
                         appendPropertyAttribute(w2.config, "core-site",
                                                 proxyHosts(userOldValue), "delete", <<"t", "r", "u", "e">>),
                         "core-site", proxyGroups(userOldValue), "delete", <<"t", "r", "u", "e">>),
            raised |-> "",
            forced |-> out.forced
                       \o << forcedEntry(proxyHosts(userOldValue)),
                             forcedEntry(proxyGroups(userOldValue)),
                             forcedEntry(proxyHosts(user.name)),
                             forcedEntry(proxyGroups(user.name)) >>]

RECURSIVE proxyUserTurns(_, _, _)
proxyUserTurns(out, users, svcs) ==
  IF users = <<>> \/ out.raised # "" THEN out
  ELSE proxyUserTurns(proxyUserTurn(out, Head(users), svcs), Tail(users), svcs)

\* recommendHadoopProxyUsers with users.iteritems() in the given order: the
\* tree, the forced-configurations of services and the exception
recommendHadoopProxyUsers(config, svcs, hostItems, order) ==
  LET users == proxyUsers(svcs, hostItems)
      forced == IF "forced-configurations" \in DOMAIN svcs
                THEN svcs["forced-configurations"] ELSE <<>>
      c0 == putProperty(config, "core-site")
  IN  proxyUserTurns([config |-> c0, raised |-> "", forced |-> forced],
                     [i \in 1..Len(users) |-> users[order[i]]], svcs)

(***************************************************************************)
(* Inputs of recommendHadoopProxyUsers                                     *)
(***************************************************************************)
ProxyHosts ==
  << mkHost(1, [total_mem |-> 20 * KBperGB, cpu_count |-> 4, disks |-> 1]),
     mkHost(2, [total_mem |-> 20 * KBperGB, cpu_count |-> 4, disks |-> 1]) >>
proxyService(name, component, hostnames) ==
  [service_name |-> name, components |-> << mkComponent(component, hostnames) >>]
\* HDFS, OOZIE, HIVE and FALCON, some of them installed, the OOZIE_SERVER on a
\* host or on none
ProxyServiceLists ==
  { SelectSeq(<< proxyService("HDFS", "NAMENODE", <<"h1">>),
                 proxyService("OOZIE", "OOZIE_SERVER", oozieHosts),
                 proxyService("HIVE", "HIVE_SERVER", <<"h1">>),
                 proxyService("FALCON", "FALCON_SERVER", <<"h1">>) >>,
              LAMBDA s : s.service_name \in installed) :
      installed \in { {"HDFS"}, {"OOZIE"}, {"HDFS", "OOZIE"},
                      {"HDFS", "OOZIE", "HIVE", "FALCON"} },
      oozieHosts \in { <<>>, <<"h2">> } }
\* the run-as users; the oozie user may be the hdfs user
ProxyLiveTrees ==
  { ("hadoop-env" :> site(("hdfs_user" :> <<"h", "d", "f", "s">>) @@ group))
    @@ ("oozie-env" :> site(("oozie_user" :> oozie)))
    @@ ("hive-env" :> site(("hive_user" :> <<"h", "i", "v", "e">>) @@ ("webhcat_user" :> <<"h", "c", "a", "t">>)))
    @@ ("falcon-env" :> site(("falcon_user" :> <<"f", "a", "l", "c", "o", "n">>))) :
      group \in { <<>>, ("proxyuser_group" :> <<"u", "s", "e", "r", "s">>) },
      oozie \in { <<"o", "o", "z", "i", "e">>, <<"h", "d", "f", "s">> } }
\* entries of changed-configurations: a run-as user renamed, changed to the
\* name it had, changed with no old value given
ProxyChangedEntries ==
  { [type |-> "hadoop-env", name |-> "hdfs_user", old_value |-> <<"h", "d", "f", "s", "_", "o", "l", "d">>],
    [type |-> "hadoop-env", name |-> "hdfs_user", old_value |-> <<"h", "d", "f", "s">>],
    [type |-> "hadoop-env", name |-> "hdfs_user"],
    [type |-> "oozie-env", name |-> "oozie_user", old_value |-> <<"o", "o", "z", "i", "e", "_", "o", "l", "d">>],
    [type |-> "hive-env", name |-> "webhcat_user", old_value |-> <<"h", "c", "a", "t", "_", "o", "l", "d">>] }
\* a property is named once in changed-configurations
ProxyChangedLists ==
  { l \in SeqsUpTo(ProxyChangedEntries, MaxChanged) :
      \A i, j \in 1..Len(l) : (l[i].type = l[j].type /\ l[i].name = l[j].name) => i = j }
ProxyForcedBefore == << [type |-> "hdfs-site", name |-> "dfs.namenode.rpc-address"] >>

InitProxy ==
  /\ login_defs = NoFile
  /\ hosts = ProxyHosts
  /\ \E svcs \in ProxyServiceLists, live \in ProxyLiveTrees, changed \in ProxyChangedLists,
        forced \in { <<>>, ("forced-configurations" :> ProxyForcedBefore) } :
       services = forced @@ ("changed-configurations" :> changed)
                  @@ ("configurations" :> live) @@ ("services" :> svcs)
  /\ clusterData = NoValue
  /\ configurations = <<>>
  /\ items = <<>>
  /\ ret = NoValue
  /\ raised = ""
  /\ pc = "start"

\* self.recommendHadoopProxyUsers(configurations, services, hosts)
RecommendHadoopProxyUsers ==
  /\ pc = "start"
  /\ \E order \in Perms(1..Len(proxyUsers(services, hosts))) :
       LET out == recommendHadoopProxyUsers(configurations, services, hosts, order)
       IN  /\ configurations' = out.config
           /\ raised' = out.raised
           /\ services' = withForced(services, out.forced)
  /\ pc' = "done"
  /\ UNCHANGED <<login_defs, hosts, clusterData, items, ret>>

NextProxy == RecommendHadoopProxyUsers

SpecProxy == InitProxy /\ [][NextProxy]_vars

\* the collected users whose property has an entry in changed-configurations
\* with an old_value that is not the name
proxyRenamed ==
  { u \in Range(proxyUsers(services, hosts)) :
      \E c \in Range(services["changed-configurations"]) :
        /\ c.type = u.config /\ c.name = u.propertyName
        /\ "old_value" \in DOMAIN c /\ c.old_value # u.name }
proxyOldName(u) ==
  (CHOOSE c \in Range(services["changed-configurations"]) :
     c.type = u.config /\ c.name = u.propertyName /\ "old_value" \in DOMAIN c).old_value
proxyForcedBefore ==
  IF "forced-configurations" \in DOMAIN services
  THEN services["forced-configurations"] ELSE <<>>

\* C16: for each collected user renamed (an old_value that is not the name),
\* core-site gets the attribute delete = 'true' on the two properties of the
\* old name and forced-configurations gets the four pairs (old hosts, old
\* groups, new hosts, new groups); for the others no delete attribute is
\* written and the list is not extended.
C16_RunAsUserRename ==
  [][(pc = "start" /\ pc' = "done" /\ raised' = "") =>
       LET forcedAfter == services'["forced-configurations"]
           added == SubSeq(forcedAfter, Len(proxyForcedBefore) + 1, Len(forcedAfter))
           attributes == IF "property_attributes" \in DOMAIN configurations'["core-site"]
                         THEN configurations'["core-site"]["property_attributes"] ELSE <<>>
       IN  /\ SubSeq(forcedAfter, 1, Len(proxyForcedBefore)) = proxyForcedBefore
           /\ Len(added) = 4 * Cardinality(proxyRenamed)
           /\ Range(added) =
                UNION { { forcedEntry(proxyHosts(proxyOldName(u))),
                          forcedEntry(proxyGroups(proxyOldName(u))),
                          forcedEntry(proxyHosts(u.name)),
                          forcedEntry(proxyGroups(u.name)) } : u \in proxyRenamed }
           /\ DOMAIN attributes =
                UNION { { proxyHosts(proxyOldName(u)), proxyGroups(proxyOldName(u)) } :
                        u \in proxyRenamed }
           /\ \A k \in DOMAIN attributes : attributes[k] = ("delete" :> <<"t", "r", "u", "e">>)
           /\ proxyRenamed = {} => "property_attributes" \notin DOMAIN configurations'["core-site"]
    ]_vars

\* the hdfs user renamed, three users collected
C16_Witness ==
  /\ pc = "done"
  /\ raised = ""
  /\ "property_attributes" \in DOMAIN configurations["core-site"]
  /\ "hadoop.proxyuser.hdfs_old.hosts" \in DOMAIN configurations["core-site"]["property_attributes"]
  /\ "hadoop.proxyuser.oozie.hosts" \in DOMAIN configurations["core-site"]["properties"]
  /\ Len(services["forced-configurations"]) = 5

(***************************************************************************)
(* recommendMapReduce2Configurations, recommendHDFSConfigurations,         *)
(* recommendHbaseConfigurations, recommendRangerConfigurations             *)
(***************************************************************************)
\* "-Xmx" + str(n) + "m"
xmxOpts(n) == <<"-", "X", "m", "x">> \o str(n) \o <<"m">>

recommendMapReduce2Configurations(config, profile, svcs) ==
  LET am == profile.amMemory
      map == Rat(profile.mapMemory, 1)
      reduce == profile.reduceMemory
      c0 == [config |-> putProperty(config, "mapred-site"), raised |-> ""]
      c1 == putValue(c0, "mapred-site", "yarn.app.mapreduce.am.resource.mb",
                     intValue(RatFloor(am)), svcs)
      c2 == putValue(c1, "mapred-site", "yarn.app.mapreduce.am.command-opts",
                     strValue(xmxOpts(roundRat(4 * am.num, 5 * am.den))), svcs)
      c3 == putValue(c2, "mapred-site", "mapreduce.map.memory.mb",
                     intValue(profile.mapMemory), svcs)
      c4 == putValue(c3, "mapred-site", "mapreduce.reduce.memory.mb",
                     intValue(RatFloor(reduce)), svcs)
      c5 == putValue(c4, "mapred-site", "mapreduce.map.java.opts",
                     strValue(xmxOpts(roundRat(4 * map.num, 5 * map.den))), svcs)
      c6 == putValue(c5, "mapred-site", "mapreduce.reduce.java.opts",
                     strValue(xmxOpts(roundRat(4 * reduce.num, 5 * reduce.den))), svcs)
  IN  putValue(c6, "mapred-site", "mapreduce.task.io.sort.mb",
               intValue(Min(roundRat(2 * map.num, 5 * map.den), 1024)), svcs)

\* getServicesSiteProperties(services, siteName): None without the site
getServicesSiteProperties(svcs, siteName) ==
  IF /\ "configurations" \in DOMAIN svcs
     /\ DOMAIN svcs["configurations"] # {}
     /\ siteName \in DOMAIN svcs["configurations"]
  THEN IF "properties" \in DOMAIN svcs["configurations"][siteName]
       THEN svcs["configurations"][siteName]["properties"] ELSE NoneDict
  ELSE NoneDict

\* NameNode HA: dfs.nameservices names a service whose dfs.ha.namenodes.<name>
\* lists more than one name node
nameNodeHaEnabled(svcs) ==
  LET hdfsSiteProperties == getServicesSiteProperties(svcs, "hdfs-site")
  IN  /\ hdfsSiteProperties # NoneDict
      /\ "dfs.nameservices" \in DOMAIN hdfsSiteProperties
      /\ hdfsSiteProperties["dfs.nameservices"] # <<>>
      /\ LET key == "dfs.ha.namenodes." \o textOf(hdfsSiteProperties["dfs.nameservices"])
         IN  /\ key \in DOMAIN hdfsSiteProperties
             /\ "," \in Range(hdfsSiteProperties[key])

\* the tree, the services payload and the exception
recommendHDFSConfigurations(config, profile, svcs, hostItems, order) ==
  LET c0 == [config |-> putProperty(putProperty(config, "hadoop-env"), "hdfs-site"),
             raised |-> ""]
      c1 == putValue(c0, "hadoop-env", "namenode_heapsize",
                     intValue(Max(profile.totalAvailableRam \div 2, 1024)), svcs)
      c2 == putValue(c1, "hadoop-env", "namenode_opt_newsize",
                     intValue(Max(profile.totalAvailableRam \div 8, 128)), svcs)
      c3 == putValue(c2, "hadoop-env", "namenode_opt_maxnewsize",
                     intValue(Max(profile.totalAvailableRam \div 8, 256)), svcs)
      c4 == IF c3.raised = "" /\ nameNodeHaEnabled(svcs)
            THEN [c3 EXCEPT !.config =
                    appendPropertyAttribute(@, "hdfs-site", "dfs.namenode.rpc-address",
                                            "delete", <<"t", "r", "u", "e">>)]
            ELSE c3
      users == recommendHadoopProxyUsers(c4.config, svcs, hostItems, order)
  IN  IF c4.raised # ""
      THEN [config |-> c4.config, raised |-> c4.raised, services |-> svcs]
      ELSE [config |-> users.config, raised |-> users.raised,
            services |-> withForced(svcs, users.forced)]

recommendHbaseConfigurations(config, profile, svcs) ==
  LET c0 == [config |-> putProperty(config, "hbase-env"), raised |-> ""]
      c1 == putValue(c0, "hbase-env", "hbase_regionserver_heapsize",
                     intValue(profile.hbaseRam * 1024), svcs)
      c2 == putValue(c1, "hbase-env", "hbase_master_heapsize",
                     intValue(profile.hbaseRam * 1024), svcs)
      c3 == [c2 EXCEPT !.config = IF c2.raised = "" THEN putProperty(@, "hbase-site") ELSE @]
  IN  IF /\ liveHas(svcs, "hbase-site", "hbase.superuser")
         /\ liveHas(svcs, "hbase-env", "hbase_user")
         /\ liveOf(svcs, "hbase-env", "hbase_user") # liveOf(svcs, "hbase-site", "hbase.superuser")
      THEN putValue(c3, "hbase-site", "hbase.superuser",
                    strValue(liveOf(svcs, "hbase-env", "hbase_user")), svcs)
      ELSE c3

ranger_sql_connector_dict ==
  ("MYSQL" :> <<"/", "u", "s", "r", "/", "s", "h", "a", "r", "e", "/", "j", "a", "v", "a", "/", "m", "y", "s", "q", "l", "-", "c", "o", "n", "n", "e", "c", "t", "o", "r", "-", "j", "a", "v", "a", ".", "j", "a", "r">>)
  @@ ("ORACLE" :> <<"/", "u", "s", "r", "/", "s", "h", "a", "r", "e", "/", "j", "a", "v", "a", "/", "o", "j", "d", "b", "c", "6", ".", "j", "a", "r">>)
  @@ ("POSTGRES" :> <<"/", "u", "s", "r", "/", "s", "h", "a", "r", "e", "/", "j", "a", "v", "a", "/", "p", "o", "s", "t", "g", "r", "e", "s", "q", "l", ".", "j", "a", "r">>)
  @@ ("MSSQL" :> <<"/", "u", "s", "r", "/", "s", "h", "a", "r", "e", "/", "j", "a", "v", "a", "/", "s", "q", "l", "j", "d", "b", "c", "4", ".", "j", "a", "r">>)
  @@ ("SQLA" :> <<"/", "p", "a", "t", "h", "_", "t", "o", "_", "d", "r", "i", "v", "e", "r", "/", "s", "q", "l", "a", "-", "c", "l", "i", "e", "n", "t", "-", "j", "d", "b", "c", ".", "t", "a", "r", ".", "g", "z">>)

UpperChar(c) ==
  IF c \in Range(LowerChars)
  THEN UpperChars[CHOOSE i \in 1..26 : LowerChars[i] = c]
  ELSE c
upper(s) == [i \in 1..Len(s) |-> UpperChar(s[i])]

\* a live value that reads 'false' whatever its case
liveIsFalse(svcs, configType, key) ==
  liveHas(svcs, configType, key) /\ lower(liveOf(svcs, configType, key)) = <<"f", "a", "l", "s", "e">>

rangerProtocol(svcs) ==
  IF \/ liveIsFalse(svcs, "ranger-site", "http.enabled")
     \/ liveIsFalse(svcs, "ranger-admin-site", "ranger.service.http.enabled")
  THEN <<"h", "t", "t", "p", "s">> ELSE <<"h", "t", "t", "p">>

rangerPortMutSiteFirst(svcs) ==
  IF rangerProtocol(svcs) = <<"h", "t", "t", "p", "s">>
  THEN IF liveHas(svcs, "ranger-site", "https.service.port")
       THEN liveOf(svcs, "ranger-site", "https.service.port")
       ELSE IF liveHas(svcs, "ranger-admin-site", "ranger.service.https.port")
       THEN liveOf(svcs, "ranger-admin-site", "ranger.service.https.port")
       ELSE <<"6", "0", "8", "0">>
  ELSE IF liveHas(svcs, "ranger-site", "http.service.port")
       THEN liveOf(svcs, "ranger-site", "http.service.port")
       ELSE IF liveHas(svcs, "ranger-admin-site", "ranger.service.http.port")
       THEN liveOf(svcs, "ranger-admin-site", "ranger.service.http.port")
       ELSE <<"6", "0", "8", "0">>
rangerPort(svcs) ==
  IF rangerProtocol(svcs) = <<"h", "t", "t", "p", "s">>
  THEN IF liveHas(svcs, "ranger-admin-site", "ranger.service.https.port")
       THEN liveOf(svcs, "ranger-admin-site", "ranger.service.https.port")
       ELSE IF liveHas(svcs, "ranger-site", "https.service.port")
       THEN liveOf(svcs, "ranger-site", "https.service.port")
       ELSE <<"6", "0", "8", "0">>
  ELSE IF liveHas(svcs, "ranger-admin-site", "ranger.service.http.port")
       THEN liveOf(svcs, "ranger-admin-site", "ranger.service.http.port")
       ELSE IF liveHas(svcs, "ranger-site", "http.service.port")
       THEN liveOf(svcs, "ranger-site", "http.service.port")
       ELSE <<"6", "0", "8", "0">>

\* "%s://%s:%s" % (protocol, ranger_admin_host, port)
policymgr_external_url(svcs) ==
  LET ranger_admin_hosts == getComponentHostNames(svcs, "RANGER", "RANGER_ADMIN")
      ranger_admin_host == IF ranger_admin_hosts # <<>>
                           THEN hostNameChars[ranger_admin_hosts[1]] ELSE <<"l", "o", "c", "a", "l", "h", "o", "s", "t">>
  IN  rangerProtocol(svcs) \o <<":", "/", "/">> \o ranger_admin_host \o <<":">> \o rangerPort(svcs)

\* the service_version of the RANGER entries of services["services"]
rangerServiceVersions(svcs) ==
  LET entries == SelectSeq(svcs.services, LAMBDA s : s.service_name = "RANGER")
  IN  [i \in 1..Len(entries) |-> entries[i].service_version]

\* the usersync-properties recommended from ambari-server-properties
rangerLdapWrites(svcs) ==
  IF /\ "ambari-server-properties" \in DOMAIN svcs
     /\ "ambari.ldap.isConfigured" \in DOMAIN svcs["ambari-server-properties"]
     /\ lower(svcs["ambari-server-properties"]["ambari.ldap.isConfigured"]) = <<"t", "r", "u", "e">>
  THEN LET serverProperties == svcs["ambari-server-properties"]
           copy(key, target) ==
             IF key \in DOMAIN serverProperties
             THEN << write("usersync-properties", target, strValue(serverProperties[key])) >>
             ELSE <<>>
           ldap_protocol ==
             IF /\ "authentication.ldap.useSSL" \in DOMAIN serverProperties
                /\ serverProperties["authentication.ldap.useSSL"] = <<"t", "r", "u", "e">>
             THEN <<"l", "d", "a", "p", "s", ":", "/", "/">> ELSE <<"l", "d", "a", "p", ":", "/", "/">>
           primaryUrl == serverProperties["authentication.ldap.primaryUrl"]
       IN  copy("authentication.ldap.managerDn", "SYNC_LDAP_BIND_DN")
           \o (IF "authentication.ldap.primaryUrl" \in DOMAIN serverProperties
               THEN << write("usersync-properties", "SYNC_LDAP_URL",
                             strValue(IF primaryUrl # <<>> THEN ldap_protocol \o primaryUrl
                                      ELSE primaryUrl)) >>
               ELSE <<>>)
           \o copy("authentication.ldap.userObjectClass", "SYNC_LDAP_USER_OBJECT_CLASS")
           \o copy("authentication.ldap.usernameAttribute", "SYNC_LDAP_USER_NAME_ATTRIBUTE")
  ELSE <<>>

rangerLdapConfigured(svcs) ==
  /\ "ambari-server-properties" \in DOMAIN svcs
  /\ "ambari.ldap.isConfigured" \in DOMAIN svcs["ambari-server-properties"]
  /\ lower(svcs["ambari-server-properties"]["ambari.ldap.isConfigured"]) = <<"t", "r", "u", "e">>

rangerAuthenticationWrites(svcs) ==
  IF /\ "admin-properties" \in DOMAIN svcs["configurations"]
     /\ liveHas(svcs, "usersync-properties", "SYNC_SOURCE")
     /\ upper(liveOf(svcs, "usersync-properties", "SYNC_SOURCE")) # <<"F", "I", "L", "E">>
  THEN << write("admin-properties", "authentication_method",
                strValue(upper(liveOf(svcs, "usersync-properties", "SYNC_SOURCE")))) >>
  ELSE <<>>

rangerAuditDirWrites(svcs) ==
  IF "HDFS" \in Range(serviceNames(svcs)) /\ liveHas(svcs, "core-site", "fs.defaultFS")
  THEN << write("ranger-env", "xasecure.audit.destination.hdfs.dir",
                strValue(liveOf(svcs, "core-site", "fs.defaultFS")
                         \o <<"/", "r", "a", "n", "g", "e", "r", "/", "a", "u", "d", "i", "t", "/", "%", "a", "p", "p", "-", "t", "y", "p", "e", "%", "/", "%", "t", "i", "m", "e", ":", "y", "y", "y", "y", "M", "M", "d", "d", "%">>)) >>
  ELSE <<>>

ranger_services ==
  << [service_name |-> "HDFS", audit_file |-> "ranger-hdfs-plugin-properties"],
     [service_name |-> "HBASE", audit_file |-> "ranger-hbase-plugin-properties"],
     [service_name |-> "HIVE", audit_file |-> "ranger-hive-plugin-properties"],
     [service_name |-> "KNOX", audit_file |-> "ranger-knox-plugin-properties"],
     [service_name |-> "STORM", audit_file |-> "ranger-storm-plugin-properties"] >>
ranger_audit_dict ==
  << [filename |-> "ranger-env", configname |-> "xasecure.audit.destination.db",
      target_configname |-> "XAAUDIT.DB.IS_ENABLED"],
     [filename |-> "ranger-env", configname |-> "xasecure.audit.destination.hdfs",
      target_configname |-> "XAAUDIT.HDFS.IS_ENABLED"],
     [filename |-> "ranger-env", configname |-> "xasecure.audit.destination.hdfs.dir",
      target_configname |-> "XAAUDIT.HDFS.DESTINATION_DIRECTORY"] >>

\* one turn of the loop over ranger_audit_dict: the value recommended for the
\* property if there is one, else the live one
rangerAuditTurn(out, auditFile, item, svcs) ==
  IF out.raised = "" /\ liveHas(svcs, item.filename, item.configname)
  THEN LET rangerAuditProperty ==
             IF /\ item.filename \in DOMAIN out.config
                /\ item.configname \in DOMAIN out.config[item.filename]["properties"]
             THEN out.config[item.filename]["properties"][item.configname]
             ELSE liveOf(svcs, item.filename, item.configname)
       IN  putValue(out, auditFile, item.target_configname, strValue(rangerAuditProperty),
                    svcs)
  ELSE out

\* one turn of the loop over ranger_services
rangerServiceTurn(out, service, svcs) ==
  IF /\ out.raised = ""
     /\ service.service_name \in Range(serviceNames(svcs))
     /\ service.audit_file \in DOMAIN svcs["configurations"]
  THEN LET o0 == [out EXCEPT !.config = putProperty(@, service.audit_file)]
           o1 == rangerAuditTurn(o0, service.audit_file, ranger_audit_dict[1], svcs)
           o2 == rangerAuditTurn(o1, service.audit_file, ranger_audit_dict[2], svcs)
       IN  rangerAuditTurn(o2, service.audit_file, ranger_audit_dict[3], svcs)
  ELSE out

RECURSIVE rangerServiceTurns(_, _, _)
rangerServiceTurns(out, rangerServices, svcs) ==
  IF rangerServices = <<>> THEN out
  ELSE rangerServiceTurns(rangerServiceTurn(out, Head(rangerServices), svcs),
                          Tail(rangerServices), svcs)

\* the writes one after the other on an outcome, up to the first that raises
RECURSIVE putValues(_, _, _)
putValues(out, writes, svcs) ==
  IF writes = <<>> THEN out
  ELSE putValues(putValue(out, Head(writes).type, Head(writes).key, Head(writes).value,
                          svcs),
                 Tail(writes), svcs)

recommendRangerConfigurations(config, svcs) ==
  LET c0 == [config |-> putProperty(config, "admin-properties"), raised |-> ""]
      rangerDbFlavor == textOf(liveOf(svcs, "admin-properties", "DB_FLAVOR"))
      c1 == IF liveHas(svcs, "admin-properties", "DB_FLAVOR")
            THEN putValue(c0, "admin-properties", "SQL_CONNECTOR_JAR",
                          strValue(IF rangerDbFlavor \in DOMAIN ranger_sql_connector_dict
                                   THEN ranger_sql_connector_dict[rangerDbFlavor]
                                   ELSE ranger_sql_connector_dict["MYSQL"]), svcs)
            ELSE c0
      c2 == putValue(c1, "admin-properties", "policymgr_external_url",
                     strValue(policymgr_external_url(svcs)), svcs)
      versions == rangerServiceVersions(svcs)
  IN  IF c2.raised # "" THEN c2
      ELSE IF versions = <<>> THEN [config |-> c2.config, raised |-> "IndexError"]
      ELSE IF versions[1] # <<"0", ".", "4", ".", "0">> THEN c2
      ELSE LET c3 == IF rangerLdapConfigured(svcs)
                     THEN putValues([c2 EXCEPT !.config = putProperty(@, "usersync-properties")],
                                    rangerLdapWrites(svcs), svcs)
                     ELSE c2
               c4 == putValues(c3, rangerAuthenticationWrites(svcs), svcs)
               c5 == IF c4.raised # "" THEN c4
                     ELSE putValues([c4 EXCEPT !.config = putProperty(@, "ranger-env")],
                                    rangerAuditDirWrites(svcs), svcs)
           IN  rangerServiceTurns(c5, ranger_services, svcs)

(***************************************************************************)
(* Inputs of the recommenders                                              *)
(***************************************************************************)
MaxCalls == 2

RecommendHosts ==
  << amsHost("h1", << amsDisk(<<"/", "g", "r", "i", "d", "/", "0">>, "ext4", <<"9">>), amsDisk(<<"/", "g", "r", "i", "d", "/", "1">>, "xfs", <<"1", "0">>) >>),
     amsHost("h2", << amsDisk(<<"/", "d", "2">>, "ext4", <<"7", "0", "0">>) >>) >>

\* the six services, RANGER of version 0.4.0 or 0.5.0
RecommendServiceLists ==
  { << proxyService("YARN", "NODEMANAGER", <<"h1">>),
       [service_name |-> "MAPREDUCE2", components |-> <<>>],
       proxyService("HDFS", "NAMENODE", <<"h1">>),
       proxyService("HBASE", "HBASE_MASTER", <<"h2">>),
       proxyService("AMBARI_METRICS", "METRICS_COLLECTOR", <<"h1">>),
       [service_name |-> "RANGER", service_version |-> version,
        components |-> << mkComponent("RANGER_ADMIN", <<"h2">>) >>] >> :
      version \in { <<"0", ".", "4", ".", "0">>, <<"0", ".", "5", ".", "0">> } }

\* a live tree with the optional properties set; one with name node HA and the
\* http port of ranger closed
RecommendLiveTree ==
  ("hadoop-env" :> site(("hdfs_user" :> <<"h", "d", "f", "s">>)))
  @@ ("hdfs-site" :> site(("dfs.nameservices" :> <<"n", "s", "1">>)
                          @@ ("dfs.ha.namenodes.ns1" :> <<"n", "n", "1">>)))
  @@ ("core-site" :> site(("fs.defaultFS" :> <<"h", "d", "f", "s", ":", "/", "/", "n", "s", "1">>)))
  @@ ("hbase-site" :> site(("hbase.superuser" :> <<"h", "b", "a", "s", "e">>)))
  @@ ("hbase-env" :> site(("hbase_user" :> <<"h", "b">>)))
  @@ ("admin-properties" :> site(("DB_FLAVOR" :> <<"O", "R", "A", "C", "L", "E">>)))
  @@ ("usersync-properties" :> site(("SYNC_SOURCE" :> <<"l", "d", "a", "p">>)))
  @@ ("ranger-env" :> site(("xasecure.audit.destination.db" :> <<"t", "r", "u", "e">>)
                           @@ ("xasecure.audit.destination.hdfs.dir" :> <<"h", "d", "f", "s", ":", "/", "/", "o", "l", "d">>)))
  @@ ("ranger-hdfs-plugin-properties" :> site(<<>>))
  @@ ("ranger-admin-site" :> site(("ranger.service.http.port" :> <<"6", "0", "8", "1">>)))
RecommendLiveTreeHa ==
  ("hdfs-site" :> site(("dfs.nameservices" :> <<"n", "s", "1">>)
                       @@ ("dfs.ha.namenodes.ns1" :> <<"n", "n", "1", ",", "n", "n", "2">>)))
  @@ ("ranger-site" :> site(("http.enabled" :> <<"F", "a", "l", "s", "e">>)
                            @@ ("https.service.port" :> <<"6", "1", "8", "2">>)))
  @@ ("ranger-admin-site" :> site(<<>>))
  @@ RecommendLiveTree
RecommendLiveTrees == { RecommendLiveTree, RecommendLiveTreeHa }

\* nothing changed, or the hdfs user renamed
RecommendChangedLists ==
  { <<>>, << [type |-> "hadoop-env", name |-> "hdfs_user", old_value |-> <<"h", "d", "f", "s", "_", "o", "l", "d">>] >> }

\* the server is set up for LDAP or says nothing of it
RecommendServerProperties ==
  { <<>>,
    ("ambari-server-properties" :>
       (("ambari.ldap.isConfigured" :> <<"t", "r", "u", "e">>)
        @@ ("authentication.ldap.primaryUrl" :> <<"l", "d", "a", "p", ".", "e", "x", "a", "m", "p", "l", "e", ".", "c", "o", "m", ":", "3", "8", "9">>)
        @@ ("authentication.ldap.useSSL" :> <<"t", "r", "u", "e">>)
        @@ ("authentication.ldap.managerDn" :> <<"c", "n", "=", "a", "d", "m", "i", "n">>))) }

\* pc is the list of the recommenders called so far
InitRecommend ==
  /\ login_defs = NoFile
  /\ hosts = RecommendHosts
  /\ \E svcs \in RecommendServiceLists, live \in RecommendLiveTrees,
        changed \in RecommendChangedLists, server \in RecommendServerProperties,
        forced \in { <<>>, ("forced-configurations" :> ProxyForcedBefore) } :
       services = forced @@ server @@ ("changed-configurations" :> changed)
                  @@ ("configurations" :> live) @@ ("services" :> svcs)
  /\ clusterData = getConfigurationClusterSummary(serviceNames(services), hosts, <<>>,
                                                  services)
  /\ configurations = <<>>
  /\ items = <<>>
  /\ ret = NoValue
  /\ raised = ""
  /\ pc = <<>>

\* a further recommender is called while none has raised
callable == raised = "" /\ Len(pc) < MaxCalls

CallYARN ==
  /\ callable
  /\ LET out == recommendYARNConfigurations(configurations, clusterData, services, login_defs)
     IN  configurations' = out.config /\ raised' = out.raised
  /\ pc' = Append(pc, "YARN")
  /\ UNCHANGED <<login_defs, hosts, services, clusterData, items, ret>>

CallMapReduce2 ==
  /\ callable
  /\ LET out == recommendMapReduce2Configurations(configurations, clusterData, services)
     IN  configurations' = out.config /\ raised' = out.raised
  /\ pc' = Append(pc, "MAPREDUCE2")
  /\ UNCHANGED <<login_defs, hosts, services, clusterData, items, ret>>

CallHDFS ==
  /\ callable
  /\ \E order \in Perms(1..Len(proxyUsers(services, hosts))) :
       LET out == recommendHDFSConfigurations(configurations, clusterData, services, hosts,
                                              order)
       IN  /\ configurations' = out.config
           /\ raised' = out.raised
           /\ services' = out.services
  /\ pc' = Append(pc, "HDFS")
  /\ UNCHANGED <<login_defs, hosts, clusterData, items, ret>>

CallHbase ==
  /\ callable
  /\ LET out == recommendHbaseConfigurations(configurations, clusterData, services)
     IN  configurations' = out.config /\ raised' = out.raised
  /\ pc' = Append(pc, "HBASE")
  /\ UNCHANGED <<login_defs, hosts, services, clusterData, items, ret>>

CallAms ==
  /\ callable
  /\ \E order \in dictOrders(amsMountHost(services, hosts)), result \in SplitPointResults :
       LET out == recommendAmsConfigurations(configurations, services, hosts, order, result)
       IN  configurations' = out.config /\ raised' = out.raised
  /\ pc' = Append(pc, "AMBARI_METRICS")
  /\ UNCHANGED <<login_defs, hosts, services, clusterData, items, ret>>

CallRanger ==
  /\ callable
  /\ LET out == recommendRangerConfigurations(configurations, services)
     IN  configurations' = out.config /\ raised' = out.raised
  /\ pc' = Append(pc, "RANGER")
  /\ UNCHANGED <<login_defs, hosts, services, clusterData, items, ret>>

NextRecommend ==
  \/ CallYARN
  \/ CallMapReduce2
  \/ CallHDFS
  \/ CallHbase
  \/ CallAms
  \/ CallRanger

SpecRecommend == InitRecommend /\ [][NextRecommend]_vars

forcedOf(svcs) ==
  IF "forced-configurations" \in DOMAIN svcs THEN svcs["forced-configurations"] ELSE <<>>

\* C17 as stated: a recommender call changes nothing but the recommended tree:
\* the services payload, the host inventory and the cluster profile are what
\* they were, and nothing is returned.
C17_OnlyTheTree ==
  [][/\ services' = services
     /\ hosts' = hosts
     /\ clusterData' = clusterData
     /\ ret' = NoValue]_vars

\* C17: a recommender call leaves the host inventory, the cluster profile and
\* every key of the services payload but forced-configurations as they were and
\* returns nothing; only the HDFS recommender changes the payload, and what it
\* does is create forced-configurations or append to it.
C17_OnlyTheTreeAndForced ==
  [][/\ hosts' = hosts
     /\ clusterData' = clusterData
     /\ ret' = NoValue
     /\ DOMAIN services' \ {"forced-configurations"} = DOMAIN services \ {"forced-configurations"}
     /\ \A k \in DOMAIN services \ {"forced-configurations"} : services'[k] = services[k]
     /\ Len(forcedOf(services')) >= Len(forcedOf(services))
     /\ SubSeq(forcedOf(services'), 1, Len(forcedOf(services))) = forcedOf(services)
     /\ services' # services => pc' = Append(pc, "HDFS")]_vars

\* the recommended tree holds the text for the property
recommendedIs(configType, key, text) ==
  /\ configType \in DOMAIN configurations
  /\ key \in DOMAIN configurations[configType]["properties"]
  /\ configurations[configType]["properties"][key] = text
\* the recommended tree marks the property for deletion
recommendedDelete(configType, key) ==
  /\ configType \in DOMAIN configurations
  /\ "property_attributes" \in DOMAIN configurations[configType]
  /\ key \in DOMAIN configurations[configType]["property_attributes"]
  /\ configurations[configType]["property_attributes"][key] = ("delete" :> <<"t", "r", "u", "e">>)

\* the HDFS recommender, then the RANGER one: the hdfs user was renamed, and
\* forced-configurations holds one entry more than the four of the rename
C17_Witness ==
  /\ pc = <<"HDFS", "RANGER">>
  /\ raised = ""
  /\ Len(forcedOf(services)) = 5
  /\ recommendedDelete("core-site", "hadoop.proxyuser.hdfs_old.hosts")
  /\ recommendedDelete("hdfs-site", "dfs.namenode.rpc-address")
  /\ recommendedIs("hadoop-env", "namenode_heapsize", <<"6", "1", "4", "4">>)
  /\ recommendedIs("admin-properties", "policymgr_external_url", <<"h", "t", "t", "p", "s", ":", "/", "/", "h", "2", ":", "6", "1", "8", "2">>)
  /\ recommendedIs("admin-properties", "SQL_CONNECTOR_JAR", <<"/", "u", "s", "r", "/", "s", "h", "a", "r", "e", "/", "j", "a", "v", "a", "/", "o", "j", "d", "b", "c", "6", ".", "j", "a", "r">>)
  /\ recommendedIs("admin-properties", "authentication_method", <<"L", "D", "A", "P">>)
  /\ recommendedIs("usersync-properties", "SYNC_LDAP_URL", <<"l", "d", "a", "p", "s", ":", "/", "/", "l", "d", "a", "p", ".", "e", "x", "a", "m", "p", "l", "e", ".", "c", "o", "m", ":", "3", "8", "9">>)
  /\ recommendedIs("ranger-hdfs-plugin-properties", "XAAUDIT.HDFS.DESTINATION_DIRECTORY",
                   <<"h", "d", "f", "s", ":", "/", "/", "n", "s", "1", "/", "r", "a", "n", "g", "e", "r", "/", "a", "u", "d", "i", "t", "/", "%", "a", "p", "p", "-", "t", "y", "p", "e", "%", "/", "%", "t", "i", "m", "e", ":", "y", "y", "y", "y", "M", "M", "d", "d", "%">>)
  /\ recommendedIs("ranger-hdfs-plugin-properties", "XAAUDIT.DB.IS_ENABLED", <<"t", "r", "u", "e">>)

(***************************************************************************)
(* Absent optional input                                                   *)
(***************************************************************************)
\* every live value there is can be read: the worker memory, where set, is a
\* whole number
yarnLiveWellFormed ==
  liveHas(services, "yarn-site", "yarn.nodemanager.resource.memory-mb")
    => isIntText(liveOf(services, "yarn-site", "yarn.nodemanager.resource.memory-mb"))

\* C18 as stated, for the YARN recommender: whatever part of the live tree is
\* unset (a key of changed-configurations without live value included), the
\* recommender ends without raising.
C18_AbsentIsSkipped ==
  (pc = "done" /\ yarnLiveWellFormed) => raised = ""

\* changed-configurations names a key of yarn-site and there is no live
\* yarn-site: the recommender ends with KeyError
C18_WitnessKeyError ==
  /\ pc = "done"
  /\ yarnChanged("yarn.scheduler.minimum-allocation-mb")
  /\ "yarn-site" \notin DOMAIN services["configurations"]
  /\ raised = "KeyError"

(***************************************************************************)
(* validatorEnoughDiskSpace, getMountPointForDir                           *)
(***************************************************************************)
\* re.sub("^file://", "", dir, count=1)
stripFileScheme(dir) ==
  IF StartsWith(dir, <<"f", "i", "l", "e", ":", "/", "/">>) THEN SubSeq(dir, 8, Len(dir)) ELSE dir

\* s.count(os.path.sep)
countSep(s) == Cardinality({i \in 1..Len(s) : s[i] = "/"})

\* the loop over mountPoints of getMountPointForDir, dir being normalised
RECURSIVE bestMount(_, _, _)
bestMount(dir, mountPoints, bestMountFound) ==
  IF mountPoints = <<>> THEN bestMountFound
  ELSE LET mountPoint == Head(mountPoints)
           found == IF ~StartsWith(dir, mountPoint) THEN bestMountFound
                    ELSE IF bestMountFound = NoneStr THEN mountPoint
                    ELSE IF countSep(bestMountFound) < countSep(pathJoin(mountPoint, <<>>))
                    THEN mountPoint
                    ELSE bestMountFound
       IN  bestMount(dir, Tail(mountPoints), found)

\* getMountPointForDir(dir, mountPoints): None for an empty dir and where no
\* mount point starts the dir
getMountPointForDir(dir, mountPoints) ==
  IF dir = <<>> \/ dir = NoneStr THEN NoneStr
  ELSE bestMount(lower(strip(stripFileScheme(dir))), mountPoints, NoneStr)

\* mountPoints[mountPoint["mountpoint"]] = to_number(mountPoint["available"])
availableByMountPoint(disk_info) ==
  LET lastOf(mp) == CHOOSE i \in 1..Len(disk_info) :
                      /\ disk_info[i].mountpoint = mp
                      /\ \A j \in 1..Len(disk_info) : disk_info[j].mountpoint = mp => j <= i
  IN  [mp \in {disk_info[i].mountpoint : i \in 1..Len(disk_info)} |->
         to_number(disk_info[lastOf(mp)].available)]

diskSpaceMessage ==
  "Ambari Metrics disk space requirements not met. \nRecommended disk space for partition {0} is {1}G"

\* validatorEnoughDiskSpace with mountPoints.keys() in the given order: the
\* item (None: NoValue) and the exception. None is below every number.
validatorEnoughDiskSpace(properties, propertyName, hostInfo, reqiuredDiskSpace, order) ==
  IF propertyName \notin DOMAIN properties
  THEN [item |-> getErrorItem(msg("Value should be set", <<>>)), raised |-> ""]
  ELSE IF StartsWith(properties[propertyName], <<"h", "d", "f", "s", ":", "/", "/">>)
  THEN [item |-> NoValue, raised |-> ""]
  ELSE IF "disk_info" \notin DOMAIN hostInfo
  THEN [item |-> NoValue, raised |-> "KeyError"]
  ELSE LET dir == stripFileScheme(properties[propertyName])
           mountPoints == availableByMountPoint(hostInfo.disk_info)
           mountPoint == getMountPointForDir(dir, order)
       IN  IF DOMAIN mountPoints = {}
           THEN [item |-> getErrorItem(msg("No disk info found on host %s",
                                           hostNameChars[hostInfo.host_name])),
                 raised |-> ""]
           ELSE IF mountPoint \notin DOMAIN mountPoints
           THEN [item |-> NoValue, raised |-> "KeyError"]
           ELSE IF mountPoints[mountPoint] = NoneNum
                   \/ mountPoints[mountPoint] < reqiuredDiskSpace
           THEN [item |-> getWarnItem(msg(diskSpaceMessage,
                                          << mountPoint,
                                             str(reqiuredDiskSpace \div 1048576) >>)),
                 raised |-> ""]
           ELSE [item |-> NoValue, raised |-> ""]

\* recommendedDiskSpace of validateAmsHbaseSiteConfigurations, in KB
recommendedDiskSpaceOf(svcs, hostItems) ==
  LET amsCollectorHosts == getComponentHostNames(svcs, "AMBARI_METRICS", "METRICS_COLLECTOR")
      total_sinks_count == getAmsMemoryRecommendation(svcs, hostItems).total_sinks_count
  IN  IF Len(amsCollectorHosts) > 1 THEN 10485760
      ELSE IF total_sinks_count > 2000 THEN 104857600
      ELSE IF total_sinks_count > 500 THEN 52428800
      ELSE IF total_sinks_count > 250 THEN 20971520
      ELSE 10485760

(***************************************************************************)
(* Inputs of validatorEnoughDiskSpace                                      *)
(***************************************************************************)
MaxMounts == 3

\* the mount points a host may have, with the KB available on them
DiskSpaceTable ==
  << amsDisk(<<"/">>, "ext4", <<"2", "0", "9", "7", "1", "5", "2", "0">>),
     amsDisk(<<"/", "d", "a", "t", "a">>, "ext4", <<"5", "2", "4", "2", "8", "8", "0">>),
     amsDisk(<<"/", "d", "a", "t", "a", "1">>, "ext4", <<"1", "0", "4", "8", "5", "7", "6", "0", "0">>),
     amsDisk(<<"/", "d", "a", "t", "a", "/", "a", "m", "s">>, "ext4", <<"6", "2", "9", "1", "4", "5", "6", "0">>),
     amsDisk(<<"/", "G", "r", "i", "d">>, "ext4", <<"1", "0", "4", "8", "5", "7", "6", "0", "0">>) >>
\* up to MaxMounts of them, in the order of the table
DiskSpaceLayouts ==
  { SelectSeq(DiskSpaceTable, LAMBDA d : d.mountpoint \in chosen) :
      chosen \in { c \in SUBSET {DiskSpaceTable[i].mountpoint : i \in 1..Len(DiskSpaceTable)} :
                     Cardinality(c) <= MaxMounts } }
\* h1 with one of the layouts, or with no disk_info key
DiskSpaceHosts ==
  { [host_name |-> "h1", public_host_name |-> "h1"] }
  \cup { [host_name |-> "h1", public_host_name |-> "h1", disk_info |-> l] :
           l \in DiskSpaceLayouts }
\* hbase.rootdir: under /data1, under /data/ams, with the file scheme, on
\* HDFS, under /Grid, relative, empty; or not set
DiskSpaceDirs ==
  { <<"/", "d", "a", "t", "a", "1", "/", "a", "m", "s", "/", "h", "b", "a", "s", "e">>, <<"/", "d", "a", "t", "a", "/", "a", "m", "s", "/", "h", "b", "a", "s", "e">>, <<"f", "i", "l", "e", ":", "/", "/", "/", "d", "a", "t", "a", "/", "a", "m", "s", "/", "h", "b", "a", "s", "e">>,
    <<"h", "d", "f", "s", ":", "/", "/", "n", "n", ":", "8", "0", "2", "0", "/", "a", "m", "s", "h", "b", "a", "s", "e">>, <<"/", "G", "r", "i", "d", "/", "a", "m", "s">>, <<"a", "m", "s", "/", "h", "b", "a", "s", "e">>, <<>> }
DiskSpaceProperties == { <<>> } \cup { ("hbase.rootdir" :> d) : d \in DiskSpaceDirs }
\* the collector on h1 and no or 1500 monitors: 10 GB or 50 GB are required
DiskSpaceServiceLists ==
  { << [service_name |-> "AMBARI_METRICS",
        components |-> << [component_name |-> "METRICS_COLLECTOR", hostnames |-> <<"h1">>],
                          sinkComponent("METRICS_MONITOR", "h1", mon) >>] >> :
      mon \in {0, 1500} }

InitDisk ==
  /\ login_defs = NoFile
  /\ \E h \in DiskSpaceHosts : hosts = << h >>
  /\ \E svcs \in DiskSpaceServiceLists : services = [services |-> svcs]
  /\ clusterData = NoValue
  /\ \E p \in DiskSpaceProperties : configurations = ("ams-hbase-site" :> site(p))
  /\ items = <<>>
  /\ ret = NoValue
  /\ raised = ""
  /\ pc = "start"

diskSpaceOrders ==
  IF "disk_info" \in DOMAIN hosts[1]
  THEN Perms(DOMAIN availableByMountPoint(hosts[1].disk_info))
  ELSE { <<>> }

\* self.validatorEnoughDiskSpace(properties, 'hbase.rootdir', host["Hosts"],
\* recommendedDiskSpace) of validateAmsHbaseSiteConfigurations
ValidatorEnoughDiskSpace ==
  /\ pc = "start"
  /\ \E order \in diskSpaceOrders :
       LET out == validatorEnoughDiskSpace(configurations["ams-hbase-site"]["properties"],
                                           "hbase.rootdir", hosts[1],
                                           recommendedDiskSpaceOf(services, hosts), order)
       IN  ret' = out.item /\ raised' = out.raised
  /\ pc' = "done"
  /\ UNCHANGED <<login_defs, hosts, services, clusterData, configurations, items>>

NextDisk == ValidatorEnoughDiskSpace

SpecDisk == InitDisk /\ [][NextDisk]_vars

diskProperties == configurations["ams-hbase-site"]["properties"]
\* the directory named by hbase.rootdir, the file scheme taken off
diskDir == stripFileScheme(diskProperties["hbase.rootdir"])
diskMounts ==
  IF "disk_info" \in DOMAIN hosts[1] THEN availableByMountPoint(hosts[1].disk_info)
  ELSE <<>>
diskRequired == recommendedDiskSpaceOf(services, hosts)
\* the mount point is the directory or an ancestor of it
isPathPrefix(mountPoint, dir) ==
  \/ mountPoint = dir
  \/ StartsWith(dir, IF mountPoint[Len(mountPoint)] = "/" THEN mountPoint
                     ELSE mountPoint \o <<"/">>)
diskPathPrefixes == { m \in DOMAIN diskMounts : isPathPrefix(m, diskDir) }
\* the longest of them
diskNearestMount ==
  CHOOSE m \in diskPathPrefixes : \A n \in diskPathPrefixes : Len(n) <= Len(m)
diskWarn(mountPoint) ==
  getWarnItem(msg(diskSpaceMessage, << mountPoint, str(diskRequired \div 1048576) >>))
diskNoFinding == raised = "" /\ ret = NoValue
diskSomeFinding == raised = "" /\ ret # NoValue

\* C20 as stated: the directory is resolved to the mount point that is its
\* longest path prefix, in whatever order the mount points come, and there is
\* a WARN iff that mount point has less space than required; a directory on
\* hdfs:// passes; with no mount point a prefix of the directory, or no disk
\* info on the host, there is a finding and no exception.
C20_DiskSpaceAsClaimed ==
  (pc = "done" /\ "hbase.rootdir" \in DOMAIN diskProperties) =>
    IF StartsWith(diskProperties["hbase.rootdir"], <<"h", "d", "f", "s", ":", "/", "/">>) THEN diskNoFinding
    ELSE IF DOMAIN diskMounts = {} \/ diskPathPrefixes = {} THEN diskSomeFinding
    ELSE IF diskMounts[diskNearestMount] < diskRequired
    THEN raised = "" /\ ret = diskWarn(diskNearestMount)
    ELSE diskNoFinding

\* the directory is written as the code compares it (lower case, no blanks
\* around it), some mount point is an ancestor of it, and every mount point
\* its text starts with is an ancestor of it
diskSettled ==
  /\ "hbase.rootdir" \in DOMAIN diskProperties
  /\ ~StartsWith(diskProperties["hbase.rootdir"], <<"h", "d", "f", "s", ":", "/", "/">>)
  /\ diskDir = lower(strip(stripFileScheme(diskDir)))
  /\ diskPathPrefixes # {}
  /\ \A m \in DOMAIN diskMounts : StartsWith(diskDir, m) => isPathPrefix(m, diskDir)

\* C20 where the code and the statement agree: for such a directory the
\* outcome is that of the nearest mount point in every order; a directory on
\* hdfs:// passes; a host with an empty disk_info gives the ERROR.
C20_DiskSpaceWhereSettled ==
  pc = "done" =>
    /\ diskSettled =>
         IF diskMounts[diskNearestMount] < diskRequired
         THEN raised = "" /\ ret = diskWarn(diskNearestMount)
         ELSE diskNoFinding
    /\ ("hbase.rootdir" \in DOMAIN diskProperties
        /\ StartsWith(diskProperties["hbase.rootdir"], <<"h", "d", "f", "s", ":", "/", "/">>)) => diskNoFinding
    /\ ("hbase.rootdir" \in DOMAIN diskProperties
        /\ ~StartsWith(diskProperties["hbase.rootdir"], <<"h", "d", "f", "s", ":", "/", "/">>)
        /\ "disk_info" \in DOMAIN hosts[1] /\ hosts[1].disk_info = <<>>) =>
         (raised = "" /\ ret = getErrorItem(msg("No disk info found on host %s", <<"h", "1">>)))

\* /data1/ams/hbase on a host with /data (5 GB) and /data1 (100 GB): the WARN
\* names /data
C20_WitnessWrongMount ==
  /\ pc = "done"
  /\ "hbase.rootdir" \in DOMAIN diskProperties
  /\ diskProperties["hbase.rootdir"] = <<"/", "d", "a", "t", "a", "1", "/", "a", "m", "s", "/", "h", "b", "a", "s", "e">>
  /\ DOMAIN diskMounts = { <<"/", "d", "a", "t", "a">>, <<"/", "d", "a", "t", "a", "1">> }
  /\ raised = ""
  /\ ret = diskWarn(<<"/", "d", "a", "t", "a">>)

\* a relative directory on a host with mount points: KeyError
C20_WitnessNoPrefix ==
  /\ pc = "done"
  /\ "hbase.rootdir" \in DOMAIN diskProperties
  /\ diskProperties["hbase.rootdir"] = <<"a", "m", "s", "/", "h", "b", "a", "s", "e">>
  /\ <<"/">> \in DOMAIN diskMounts
  /\ raised = "KeyError"

\* /data/ams/hbase on a host with /, /data and /data/ams, 50 GB required and
\* 60 GB on /data/ams: no finding
C20_WitnessNearest ==
  /\ pc = "done"
  /\ diskSettled
  /\ DOMAIN diskMounts = { <<"/">>, <<"/", "d", "a", "t", "a">>, <<"/", "d", "a", "t", "a", "/", "a", "m", "s">> }
  /\ diskRequired = 52428800
  /\ diskNoFinding

(***************************************************************************)
(* validatorNotRootFs                                                      *)
(***************************************************************************)
rootFsMessage(propertyName) ==
  msg("It is not recommended to use root partition for {0}", propertyName)

\* validatorNotRootFs with the dict of getPreferredMountPoints in the given
\* order: the item (None: NoValue) and the exception
validatorNotRootFs(properties, recommendedDefaults, propertyName, hostInfo, order) ==
  IF propertyName \notin DOMAIN properties
  THEN [item |-> getErrorItem(msg("Value should be set", <<>>)), raised |-> ""]
  ELSE IF \/ StartsWith(properties[propertyName], <<"h", "d", "f", "s", ":", "/", "/">>)
          \/ /\ propertyName \in DOMAIN recommendedDefaults
             /\ properties[propertyName] = recommendedDefaults[propertyName]
  THEN [item |-> NoValue, raised |-> ""]
  ELSE IF "disk_info" \notin DOMAIN hostInfo
  THEN [item |-> NoValue, raised |-> "KeyError"]
  ELSE LET dir == stripFileScheme(properties[propertyName])
           mountPoints == [i \in 1..Len(hostInfo.disk_info) |->
                             hostInfo.disk_info[i].mountpoint]
           mountPoint == getMountPointForDir(dir, mountPoints)
       IN  IF mountPoint = <<"/">> /\ getPreferredMountPoints(hostInfo, order)[1] # mountPoint
           THEN [item |-> getWarnItem(rootFsMessage(propertyName)), raised |-> ""]
           ELSE [item |-> NoValue, raised |-> ""]

(***************************************************************************)
(* Inputs of validatorNotRootFs                                            *)
(***************************************************************************)
RootFsTable ==
  << amsDisk(<<"/">>, "ext4", <<"1", "0", "0">>),
     amsDisk(<<"/", "d", "a", "t", "a">>, "ext4", <<"5", "0", "0">>),
     amsDisk(<<"/", "G", "r", "i", "d">>, "ext4", <<"5", "0", "0">>),
     amsDisk(<<"/", "b", "o", "o", "t", "/", "e", "f", "i">>, "vfat", <<"5", "0">>) >>
\* up to MaxMounts of them, in the order of the table
RootFsLayouts ==
  { SelectSeq(RootFsTable, LAMBDA d : d.mountpoint \in chosen) :
      chosen \in { c \in SUBSET {RootFsTable[i].mountpoint : i \in 1..Len(RootFsTable)} :
                     Cardinality(c) <= MaxMounts } }
RootFsHosts ==
  { [host_name |-> "h1", public_host_name |-> "h1"] }
  \cup { [host_name |-> "h1", public_host_name |-> "h1", disk_info |-> l] :
           l \in RootFsLayouts }
\* hbase.tmp.dir: under /var, under /data, under /Grid, under /boot/efi, with
\* the file scheme, on HDFS; or not set
RootFsDirs ==
  { <<"/", "v", "a", "r", "/", "l", "i", "b", "/", "a", "m", "s", "/", "t", "m", "p">>, <<"/", "d", "a", "t", "a", "/", "a", "m", "s", "/", "t", "m", "p">>, <<"/", "G", "r", "i", "d", "/", "a", "m", "s", "/", "t", "m", "p">>, <<"/", "b", "o", "o", "t", "/", "e", "f", "i", "/", "t", "m", "p">>,
    <<"f", "i", "l", "e", ":", "/", "/", "/", "v", "a", "r", "/", "l", "i", "b", "/", "a", "m", "s", "/", "t", "m", "p">>, <<"h", "d", "f", "s", ":", "/", "/", "n", "n", ":", "8", "0", "2", "0", "/", "t", "m", "p">> }
RootFsProperties == { <<>> } \cup { ("hbase.tmp.dir" :> d) : d \in RootFsDirs }
RootFsRecommended == { <<>>, ("hbase.tmp.dir" :> <<"/", "v", "a", "r", "/", "l", "i", "b", "/", "a", "m", "s", "/", "t", "m", "p">>) }

InitRootFs ==
  /\ login_defs = NoFile
  /\ \E h \in RootFsHosts : hosts = << h >>
  /\ \E p \in RootFsProperties :
       services = [services |-> <<>>, configurations |-> ("ams-hbase-site" :> site(p))]
  /\ clusterData = NoValue
  /\ \E r \in RootFsRecommended : configurations = ("ams-hbase-site" :> site(r))
  /\ items = <<>>
  /\ ret = NoValue
  /\ raised = ""
  /\ pc = "start"

\* self.validatorNotRootFs(properties, recommendedDefaults, 'hbase.tmp.dir',
\* host["Hosts"]) of validateAmsHbaseSiteConfigurations
ValidatorNotRootFs ==
  /\ pc = "start"
  /\ \E order \in dictOrders(hosts[1]) :
       LET out == validatorNotRootFs(services.configurations["ams-hbase-site"].properties,
                                     configurations["ams-hbase-site"].properties,
                                     "hbase.tmp.dir", hosts[1], order)
       IN  ret' = out.item /\ raised' = out.raised
  /\ pc' = "done"
  /\ UNCHANGED <<login_defs, hosts, services, clusterData, configurations, items>>

NextRootFs == ValidatorNotRootFs

SpecRootFs == InitRootFs /\ [][NextRootFs]_vars

rootFsProperties == services.configurations["ams-hbase-site"].properties
rootFsRecommended == configurations["ams-hbase-site"].properties
rootFsDir == stripFileScheme(rootFsProperties["hbase.tmp.dir"])
rootFsMounts ==
  IF "disk_info" \in DOMAIN hosts[1]
  THEN { hosts[1].disk_info[i].mountpoint : i \in 1..Len(hosts[1].disk_info) }
  ELSE {}
rootFsPathPrefixes == { m \in rootFsMounts : isPathPrefix(m, rootFsDir) }
\* the directory is on the mount point /: / is the longest mount point that is
\* an ancestor of it
rootFsOnRoot ==
  /\ rootFsPathPrefixes # {}
  /\ \A m \in rootFsPathPrefixes : Len(m) <= 1
\* / is not the first of the preferred mount points, in whatever order
rootFsBetterMount ==
  \A order \in dictOrders(hosts[1]) :
    getPreferredMountPoints(hosts[1], order)[1] # <<"/">>
rootFsWarned == ret = getWarnItem(rootFsMessage("hbase.tmp.dir"))

\* C21 as stated: a WARN only if the directory is on the mount point / and /
\* is not the first preferred mount point; none for a directory on hdfs://,
\* for the recommended directory, or on a host whose only preferred mount
\* point is /.
C21_NotRootFsAsClaimed ==
  (pc = "done" /\ "hbase.tmp.dir" \in DOMAIN rootFsProperties) =>
    /\ rootFsWarned => (rootFsOnRoot /\ rootFsBetterMount)
    /\ StartsWith(rootFsProperties["hbase.tmp.dir"], <<"h", "d", "f", "s", ":", "/", "/">>) => ~rootFsWarned
    /\ ("hbase.tmp.dir" \in DOMAIN rootFsRecommended
        /\ rootFsRecommended["hbase.tmp.dir"] = rootFsProperties["hbase.tmp.dir"])
         => ~rootFsWarned
    /\ ~rootFsBetterMount => ~rootFsWarned

\* the directory is lower case and every mount point its text starts with is
\* an ancestor of it
rootFsSettled ==
  /\ rootFsDir = lower(strip(rootFsDir))
  /\ \A m \in rootFsMounts : StartsWith(rootFsDir, m) => isPathPrefix(m, rootFsDir)

\* C21 where the code and the statement agree: for such a directory, not on
\* hdfs:// and not the recommended one, on a host with disk_info, there is a
\* WARN iff the directory is on / and / is not the first preferred mount point.
C21_NotRootFsWhereSettled ==
  (/\ pc = "done" /\ "hbase.tmp.dir" \in DOMAIN rootFsProperties
   /\ "disk_info" \in DOMAIN hosts[1] /\ rootFsSettled) =>
    /\ raised = ""
    /\ rootFsWarned <=>
         /\ ~StartsWith(rootFsProperties["hbase.tmp.dir"], <<"h", "d", "f", "s", ":", "/", "/">>)
         /\ ~("hbase.tmp.dir" \in DOMAIN rootFsRecommended
              /\ rootFsRecommended["hbase.tmp.dir"] = rootFsProperties["hbase.tmp.dir"])
         /\ rootFsOnRoot
         /\ rootFsBetterMount

\* /Grid/ams/tmp on a host with / and /Grid: the WARN for the root partition
C21_WitnessUpperCase ==
  /\ pc = "done"
  /\ "hbase.tmp.dir" \in DOMAIN rootFsProperties
  /\ rootFsProperties["hbase.tmp.dir"] = <<"/", "G", "r", "i", "d", "/", "a", "m", "s", "/", "t", "m", "p">>
  /\ rootFsMounts = { <<"/">>, <<"/", "G", "r", "i", "d">> }
  /\ rootFsWarned

\* /var/lib/ams/tmp on a host with / and /data: the WARN
C21_WitnessOnRoot ==
  /\ pc = "done"
  /\ "hbase.tmp.dir" \in DOMAIN rootFsProperties
  /\ rootFsProperties["hbase.tmp.dir"] = <<"f", "i", "l", "e", ":", "/", "/", "/", "v", "a", "r", "/", "l", "i", "b", "/", "a", "m", "s", "/", "t", "m", "p">>
  /\ rootFsMounts = { <<"/">>, <<"/", "d", "a", "t", "a">> }
  /\ rootFsSettled
  /\ rootFsWarned

\* ---------------------------------------------------------------------------
\* validateAmsHbaseEnvConfigurations with the collector on a host

\* a cluster of more hosts than the 31 of the co-location advisory
BigCluster == 32

\* the collector host h1 of 8, 32 or 64 GB (total_mem in KB) and hosts of 2 GB
HbaseEnvHosts ==
  { [i \in 1..n |-> IF i = 1 THEN [host_name |-> "h1", total_mem |-> mem]
                    ELSE [host_name |-> "h" \o ToString(i), total_mem |-> 2097152]] :
      n \in {3, BigCluster}, mem \in {8388608, 33554432, 67108864} }

hbaseEnvComponent(name, master) ==
  [component_name |-> name, hostnames |-> <<"h1">>, is_master |-> master]

\* the collector, master-class or not, on h1 with a DATANODE and none to three
\* other master components
HbaseEnvMasters == << "NAMENODE", "RESOURCEMANAGER", "HBASE_MASTER" >>
HbaseEnvServiceLists ==
  { << [service_name |-> "AMBARI_METRICS",
        components |-> << hbaseEnvComponent("METRICS_COLLECTOR", collectorIsMaster) >>],
       [service_name |-> "OTHERS",
        components |-> << hbaseEnvComponent("DATANODE", FALSE) >>
                       \o [i \in 1..others |-> hbaseEnvComponent(HbaseEnvMasters[i], TRUE)]] >> :
      collectorIsMaster \in BOOLEAN, others \in 0..3 }

\* ams-hbase-env: a master heap of 1024 with Xmn sizes around 12% and 20% of
\* 1024 and of 1536, or a master heap below the recommended one; a region
\* server heap of 512 with Xmn sizes around 12% and 20% of it
HbaseEnvProperties ==
  { ("hbase_master_heapsize" :> master[1]) @@ ("hbase_master_xmn_size" :> master[2])
    @@ ("hbase_regionserver_heapsize" :> <<"5", "1", "2">>) @@ ("regionserver_xmn_size" :> rsXmn)
    @@ ("hbase_log_dir" :> <<"/", "v", "a", "r", "/", "l", "o", "g", "/", "a", "m", "s">>) :
      master \in { << <<"1", "0", "2", "4">>, x >> :
                     x \in { <<"1", "2", "2">>, <<"1", "2", "3">>, <<"1", "8", "4">>, <<"1", "8", "5">>, <<"2", "0", "4">>, <<"2", "0", "5">>,
                             <<"3", "0", "7">>, <<"3", "0", "8">> } }
                 \cup { << <<"5", "1", "2">>, <<"1", "0", "2">> >> },
      rsXmn \in { <<"6", "1">>, <<"6", "2">>, <<"1", "0", "2">>, <<"1", "0", "3">> } }

\* ams-env with or without metrics_collector_heapsize
HbaseEnvAmsEnvs ==
  { ("metrics_collector_log_dir" :> <<"/", "v", "a", "r", "/", "l", "o", "g", "/", "a", "m", "s">>),
    ("metrics_collector_log_dir" :> <<"/", "v", "a", "r", "/", "l", "o", "g", "/", "a", "m", "s">>)
    @@ ("metrics_collector_heapsize" :> <<"5", "1", "2">>) }

InitHbaseEnv ==
  /\ login_defs = NoFile
  /\ hosts \in HbaseEnvHosts
  /\ \E l \in HbaseEnvServiceLists, p \in HbaseEnvProperties, e \in HbaseEnvAmsEnvs,
        distributed \in { <<"t", "r", "u", "e">>, <<"f", "a", "l", "s", "e">> } :
       services = [services |-> l,
                   configurations |->
                     ("ams-hbase-env" :> site(p)) @@ ("ams-env" :> site(e))
                     @@ ("ams-hbase-site" :> site(("hbase.cluster.distributed" :> distributed)))]
  /\ clusterData = NoValue
  /\ configurations = ("ams-hbase-env" :> site(AmsHbaseEnvRecommended))
  /\ items = <<>>
  /\ ret = NoValue
  /\ raised = ""
  /\ pc = "start"

\* validateAmsHbaseEnvConfigurations(properties, recommendedDefaults,
\* configurations, services, hosts) as validateConfigurationsForSite calls it
ValidateAmsHbaseEnv ==
  /\ pc = "start"
  /\ LET out == validateAmsHbaseEnvConfigurations(
                  services.configurations["ams-hbase-env"].properties,
                  configurations["ams-hbase-env"].properties,
                  services.configurations, services, hosts)
     IN  ret' = out.items /\ raised' = out.raised
  /\ pc' = "done"
  /\ UNCHANGED <<login_defs, hosts, services, clusterData, configurations, items>>

NextHbaseEnv == ValidateAmsHbaseEnv

SpecHbaseEnv == InitHbaseEnv /\ [][NextHbaseEnv]_vars

hbaseEnvLive == services.configurations["ams-hbase-env"].properties
hbaseEnvDistributed ==
  lower(services.configurations["ams-hbase-site"].properties["hbase.cluster.distributed"])
    = <<"t", "r", "u", "e">>
hbaseEnvMasterHeap == to_number(hbaseEnvLive["hbase_master_heapsize"])
hbaseEnvMasterXmn == to_number(hbaseEnvLive["hbase_master_xmn_size"])
hbaseEnvRegionHeap == to_number(hbaseEnvLive["hbase_regionserver_heapsize"])
hbaseEnvRegionXmn == to_number(hbaseEnvLive["regionserver_xmn_size"])

\* x is outside [12%, 20%] of heap
outsideXmnRange(x, heap) == 100 * x < 12 * heap \/ 100 * x > 20 * heap

masterXmnOutside ==
  IF hbaseEnvDistributed THEN outsideXmnRange(hbaseEnvMasterXmn, hbaseEnvMasterHeap)
  ELSE outsideXmnRange(hbaseEnvMasterXmn, hbaseEnvMasterHeap + hbaseEnvRegionHeap)
regionXmnOutside ==
  hbaseEnvDistributed /\ outsideXmnRange(hbaseEnvRegionXmn, hbaseEnvRegionHeap)

\* the validator returned with a WARN on the property
xmnWarned(name) ==
  /\ raised = ""
  /\ \E i \in 1..Len(ret) :
       /\ ret[i]["config-name"] = name
       /\ ret[i].level = "WARN"

\* C22: once validateAmsHbaseEnvConfigurations has ended, it has returned, with
\* a WARN on hbase_master_xmn_size iff that size is outside [12%, 20%] of the
\* master heap (distributed) or of the sum of the two heaps (embedded), and a
\* WARN on regionserver_xmn_size iff the mode is distributed and that size is
\* outside [12%, 20%] of the region server heap
C22_XmnRatioAsClaimed ==
  pc = "done" =>
    /\ (masterXmnOutside \/ regionXmnOutside) => raised = ""
    /\ xmnWarned("hbase_master_xmn_size") <=> masterXmnOutside
    /\ xmnWarned("regionserver_xmn_size") <=> regionXmnOutside

\* C22, what holds: no Xmn size out of range is reported, the validator ends
\* in a NameError there; and no WARN is on a Xmn property where it returns
C22_XmnNeverReported ==
  pc = "done" =>
    /\ (masterXmnOutside \/ regionXmnOutside) => raised = "NameError"
    /\ ~xmnWarned("hbase_master_xmn_size")
    /\ ~xmnWarned("regionserver_xmn_size")

\* an embedded collector whose master Xmn size of 184 is below 12% of 1536
C22_WitnessNameError ==
  /\ pc = "done"
  /\ ~hbaseEnvDistributed
  /\ hbaseEnvMasterXmn = 184
  /\ hbaseEnvMasterHeap = 1024
  /\ masterXmnOutside
  /\ raised = "NameError"

\* the master components on the collector host h1 and those of them that are
\* not the collector
hbaseEnvMastersOnHost == hostMasterComponentsOf(services, "h1")
hbaseEnvOtherMasters ==
  SelectSeq(hbaseEnvMastersOnHost, LAMBDA name : name # "METRICS_COLLECTOR")

\* the validator returned with the co-location WARN on hbase_master_heapsize
coLocationWarned ==
  /\ raised = ""
  /\ \E i \in 1..Len(ret) :
       /\ ret[i]["config-name"] = "hbase_master_heapsize"
       /\ ret[i].level = "WARN"
       /\ ret[i].message.text = masterHostMessage

\* C23: where validateAmsHbaseEnvConfigurations has returned, the co-location
\* WARN is on hbase_master_heapsize iff the collector host carries at least 3
\* other master components and has less than 32 GB, whatever the number of hosts
C23_CoLocationAsClaimed ==
  pc = "done" /\ raised = "" =>
    (coLocationWarned <=> /\ Len(hbaseEnvOtherMasters) >= 3
                          /\ hosts[1].total_mem < 32 * 1024 * 1024)

\* C23, amended: where the validator has returned, the co-location WARN is on
\* hbase_master_heapsize iff the cluster has more than 31 hosts, the live
\* hbase_master_heapsize is not below the recommended one, the collector host
\* carries more than 2 master components, the collector counted where it is
\* one, and has less than 32 GB
C23_CoLocationInBigClusters ==
  pc = "done" /\ raised = "" =>
    (coLocationWarned <=>
       /\ Len(hosts) > 31
       /\ hbaseEnvMasterHeap
            >= to_number(configurations["ams-hbase-env"].properties["hbase_master_heapsize"])
       /\ Len(hbaseEnvMastersOnHost) > 2
       /\ hosts[1].total_mem < 32 * 1024 * 1024)

\* a master-class collector with two other master components on a host of 8 GB
\* in a cluster of more than 31 hosts is warned about
C23_WitnessTwoOthers ==
  /\ pc = "done"
  /\ coLocationWarned
  /\ Len(hosts) > 31
  /\ Len(hbaseEnvOtherMasters) = 2
  /\ hosts[1].total_mem = 8388608

\* a collector with three other master components on a host of 8 GB in a
\* cluster of 3 hosts is not warned about
C23_WitnessSmallCluster ==
  /\ pc = "done"
  /\ raised = ""
  /\ ~coLocationWarned
  /\ Len(hosts) = 3
  /\ Len(hbaseEnvOtherMasters) = 3
  /\ hosts[1].total_mem = 8388608

\* ---------------------------------------------------------------------------
\* the storage paths of recommendAmsConfigurations

\* disk layouts of the collector host h1: none; one data mount; two mounts
\* beside /boot/efi; a mount nested in another
StorageDiskLayouts ==
  { <<>>,
    << amsDisk(<<"/">>, "ext4", <<"1", "0", "0">>), amsDisk(<<"/", "d", "a", "t", "a">>, "ext4", <<"5", "0", "0">>) >>,
    << amsDisk(<<"/", "g", "r", "i", "d", "/", "0">>, "ext4", <<"9">>), amsDisk(<<"/", "b", "o", "o", "t", "/", "e", "f", "i">>, "vfat", <<"5", "0">>),
       amsDisk(<<"/", "g", "r", "i", "d", "/", "1">>, "xfs", <<"1", "0">>) >>,
    << amsDisk(<<"/", "d", "a", "t", "a">>, "ext4", <<"5", "0", "0">>), amsDisk(<<"/", "d", "a", "t", "a", "/", "a", "m", "s">>, "ext4", <<"1", "0", "0">>) >> }

StorageHostLists == { << amsHost("h1", l) >> : l \in StorageDiskLayouts }

\* the collector on h1 or on no host, and no other sink
StorageServiceLists ==
  { << [service_name |-> "AMBARI_METRICS",
        components |-> << [component_name |-> "METRICS_COLLECTOR", hostnames |-> coll],
                          sinkComponent("METRICS_MONITOR", "h1", 0) >>],
       [service_name |-> "HDFS",
        components |-> << [component_name |-> "NAMENODE", hostnames |-> <<"h1">>],
                          sinkComponent("DATANODE", "h1", 0) >>] >> :
      coll \in { <<>>, <<"h1">> } }

\* hbase.tmp.dir: under /var, under /data, relative
StorageTmpDirs == { <<"/", "v", "a", "r", "/", "t", "m", "p", "/", "a", "m", "s">>, <<"/", "d", "a", "t", "a", "/", "a", "m", "s", "/", "t", "m", "p">>, <<"a", "m", "s", "-", "t", "m", "p">> }

StorageLiveTrees ==
  {<<>>} \cup
  { ("ams-hbase-site" :> [properties |-> root @@ tmp @@ dist]) :
      root \in optionalProperty("hbase.rootdir", AmsRootDirs),
      tmp \in optionalProperty("hbase.tmp.dir", StorageTmpDirs),
      dist \in optionalProperty("hbase.cluster.distributed", AmsDistributed) }

InitStorage ==
  /\ hosts \in StorageHostLists
  /\ \E svcs \in StorageServiceLists, live \in StorageLiveTrees :
       services = ("changed-configurations" :> <<>>) @@ ("configurations" :> live)
                  @@ ("services" :> svcs)
  /\ clusterData = NoValue
  /\ configurations = <<>>
  /\ items = <<>>
  /\ ret = NoValue
  /\ raised = ""
  /\ pc = "start"
  /\ login_defs = NoFile

SpecStorage == InitStorage /\ [][NextAms]_vars

\* the lists getPreferredMountPoints can return for the host whose mount
\* points the recommender takes, ["/"] where the collector is on no host
storagePreferredLists ==
  { getPreferredMountPoints(amsMountHost(services, hosts), order) :
      order \in dictOrders(amsMountHost(services, hosts)) }
storageRootIsLocal == ~StartsWith(amsLiveRootDir(services), <<"h", "d", "f", "s", ":", "/", "/">>)
storageRootDir == amsRecommendedHbaseSite["hbase.rootdir"]
storageTmpDir == amsRecommendedHbaseSite["hbase.tmp.dir"]
\* the path of a file:// URI
storageRootPath == SubSeq(storageRootDir, 8, Len(storageRootDir))

\* the entry of the preferred list the path is on: the longest one that is the
\* path or an ancestor of it ("/" is one)
storageMountOf(path, mountpoints) ==
  CHOOSE m \in Range(mountpoints) :
    /\ isPathPrefix(m, path)
    /\ \A n \in Range(mountpoints) : isPathPrefix(n, path) => Len(n) <= Len(m)

\* root under the first entry when local and left alone when not; tmp under
\* the second entry when there is one and root is local, else under the first
storagePlacedBy(mountpoints) ==
  /\ IF storageRootIsLocal
     THEN /\ StartsWith(storageRootDir, <<"f", "i", "l", "e", ":", "/", "/">>)
          /\ isPathPrefix(mountpoints[1], storageRootPath)
     ELSE storageRootDir = amsLiveRootDir(services)
  /\ IF Len(mountpoints) > 1 /\ storageRootIsLocal
     THEN isPathPrefix(mountpoints[2], storageTmpDir)
     ELSE isPathPrefix(mountpoints[1], storageTmpDir)

C24_WitnessSameMount ==
  /\ pc = "done"
  /\ raised = ""
  /\ StartsWith(storageRootDir, <<"f", "i", "l", "e", ":", "/", "/", "/", "d", "a", "t", "a", "/">>)
  /\ storageTmpDir = <<"/", "d", "a", "t", "a", "/", "a", "m", "s", "/", "t", "m", "p">>

\* ---------------------------------------------------------------------------
\* policymgr_external_url of recommendRangerConfigurations

\* ranger-site: not there, or with some of http.enabled and the two ports
RangerSites ==
  { <<>> } \cup
  { ("ranger-site" :> site(enabled @@ https @@ http)) :
      enabled \in optionalProperty("http.enabled", { <<"f", "a", "l", "s", "e">>, <<"F", "a", "l", "s", "e">>, <<"t", "r", "u", "e">> }),
      https \in optionalProperty("https.service.port", { <<"6", "1", "8", "2">> }),
      http \in optionalProperty("http.service.port", { <<"6", "0", "8", "1">> }) }
\* ranger-admin-site: not there, or with some of ranger.service.http.enabled
\* and the two ports
RangerAdminSites ==
  { <<>> } \cup
  { ("ranger-admin-site" :> site(enabled @@ https @@ http)) :
      enabled \in optionalProperty("ranger.service.http.enabled", { <<"F", "A", "L", "S", "E">>, <<"t", "r", "u", "e">> }),
      https \in optionalProperty("ranger.service.https.port", { <<"6", "1", "8", "3">> }),
      http \in optionalProperty("ranger.service.http.port", { <<"6", "0", "8", "2">> }) }
\* RANGER 0.4.0 or 0.5.0 with RANGER_ADMIN on no, one or two hosts
RangerServiceLists ==
  { << [service_name |-> "RANGER", service_version |-> version,
        components |-> << mkComponent("RANGER_ADMIN", admins) >>] >> :
      version \in { <<"0", ".", "4", ".", "0">>, <<"0", ".", "5", ".", "0">> },
      admins \in { <<>>, <<"h2">>, <<"h1", "h2">> } }

InitRanger ==
  /\ login_defs = NoFile
  /\ hosts = <<>>
  /\ \E l \in RangerServiceLists, rs \in RangerSites, ras \in RangerAdminSites :
       services = ("changed-configurations" :> <<>>) @@ ("configurations" :> (rs @@ ras))
                  @@ ("services" :> l)
  /\ clusterData = NoValue
  /\ configurations = <<>>
  /\ items = <<>>
  /\ ret = NoValue
  /\ raised = ""
  /\ pc = "start"

\* recommendRangerConfigurations(configurations, clusterData, services, hosts)
RecommendRangerConfigurations ==
  /\ pc = "start"
  /\ LET out == recommendRangerConfigurations(configurations, services)
     IN  configurations' = out.config /\ raised' = out.raised
  /\ pc' = "done"
  /\ UNCHANGED <<login_defs, hosts, services, clusterData, items, ret>>

NextRanger == RecommendRangerConfigurations

SpecRanger == InitRanger /\ [][NextRanger]_vars

\* the live value of the key, None where the type or the key is not there
rangerLive(configType, key) ==
  IF configType \in DOMAIN services["configurations"]
     /\ key \in DOMAIN services["configurations"][configType]["properties"]
  THEN services["configurations"][configType]["properties"][key]
  ELSE NoneStr
rangerHttpDisabled ==
  \/ lower(rangerLive("ranger-site", "http.enabled")) = <<"f", "a", "l", "s", "e">>
  \/ lower(rangerLive("ranger-admin-site", "ranger.service.http.enabled")) = <<"f", "a", "l", "s", "e">>
\* the first of the texts that is set, the last resort being '6080'
rangerFirstSet(adminSitePort, sitePort) ==
  IF adminSitePort # NoneStr THEN adminSitePort
  ELSE IF sitePort # NoneStr THEN sitePort
  ELSE <<"6", "0", "8", "0">>
rangerUrlClaimed ==
  LET admins == services.services[1].components[1].hostnames
      host == IF admins = <<>> THEN <<"l", "o", "c", "a", "l", "h", "o", "s", "t">> ELSE hostNameChars[admins[1]]
  IN  IF rangerHttpDisabled
      THEN <<"h", "t", "t", "p", "s", ":", "/", "/">> \o host \o <<":">>
           \o rangerFirstSet(rangerLive("ranger-admin-site", "ranger.service.https.port"),
                             rangerLive("ranger-site", "https.service.port"))
      ELSE <<"h", "t", "t", "p", ":", "/", "/">> \o host \o <<":">>
           \o rangerFirstSet(rangerLive("ranger-admin-site", "ranger.service.http.port"),
                             rangerLive("ranger-site", "http.service.port"))
rangerUrlWritten ==
  /\ "admin-properties" \in DOMAIN configurations
  /\ "policymgr_external_url" \in DOMAIN configurations["admin-properties"]["properties"]

\* C25: once recommendRangerConfigurations has ended, policymgr_external_url is
\* protocol://host:port with https iff http is disabled ('false' in any case)
\* in ranger-site or ranger-admin-site, the first RANGER_ADMIN host or
\* localhost, and for that protocol the port of ranger-admin-site, else that
\* of ranger-site, else 6080
C25_PolicyManagerUrl ==
  pc = "done" =>
    /\ rangerUrlWritten
    /\ configurations["admin-properties"]["properties"]["policymgr_external_url"]
         = rangerUrlClaimed

\* http disabled by 'False' in ranger-site, both https ports set, two admin
\* hosts: the port of ranger-admin-site and the first host are taken
C25_Witness ==
  /\ pc = "done"
  /\ rangerLive("ranger-site", "http.enabled") = <<"F", "a", "l", "s", "e">>
  /\ rangerLive("ranger-site", "https.service.port") = <<"6", "1", "8", "2">>
  /\ rangerLive("ranger-admin-site", "ranger.service.https.port") = <<"6", "1", "8", "3">>
  /\ rangerUrlWritten
  /\ configurations["admin-properties"]["properties"]["policymgr_external_url"]
       = <<"h", "t", "t", "p", "s", ":", "/", "/", "h", "1", ":", "6", "1", "8", "3">>

\* ---------------------------------------------------------------------------
\* validateMinMax on a list that holds findings already

\* live yarn-site: maximum-allocation-mb at, above and far above the maximum
\* of 8192, a float, no number, or not set; minimum-allocation-mb below and at
\* the minimum of 512, or not set
MinMaxLiveSites ==
  { site(maxAllocation @@ minAllocation
         @@ ("yarn.nodemanager.resource.memory-mb" :> <<"9", "9", "9", "9", "9">>)) :
      maxAllocation \in optionalProperty("yarn.scheduler.maximum-allocation-mb",
                                         { <<"8", "1", "9", "2">>, <<"8", "1", "9", "3">>, <<"8", "1", "9", "2", ".", "5">>, <<"l", "o", "t", "s">> }),
      minAllocation \in optionalProperty("yarn.scheduler.minimum-allocation-mb",
                                         { <<"5", "1", "1">>, <<"5", "1", "2">>, <<"9", "0", "0", "0">> }) }
\* a config type that only the live tree has is there or not
MinMaxLiveTrees ==
  { ("yarn-site" :> s) @@ extra :
      s \in MinMaxLiveSites,
      extra \in { <<>>, ("extra-site" :> site(("some.size" :> <<"7">>))) } }

\* recommended yarn-site: with or without a value of maximum-allocation-mb;
\* with no property_attributes, with bounds, or with an attribute that is no bound
MinMaxAttributes ==
  { YarnAttributes,
    ("yarn.scheduler.maximum-allocation-mb" :> ("delete" :> <<"t", "r", "u", "e">>))
    @@ ("yarn.scheduler.minimum-allocation-mb" :> ("minimum" :> <<"5", "1", "2">>)) }
MinMaxRecommendedProperties ==
  { YarnRecommended,
    ("yarn.nodemanager.resource.memory-mb" :> <<"8", "1", "9", "2">>)
    @@ ("yarn.scheduler.minimum-allocation-mb" :> <<"1", "0", "2", "4">>) }
MinMaxRecommendedTrees ==
  { ("yarn-site" :> s) :
      s \in { site(p) : p \in MinMaxRecommendedProperties }
            \cup { [properties |-> p, property_attributes |-> a] :
                     p \in MinMaxRecommendedProperties, a \in MinMaxAttributes } }

\* the findings the list holds before the sweep
MinMaxEarlierItems ==
  { <<>>,
    toConfigurationValidationProblems(
      << validationItem("yarn.nodemanager.resource.memory-mb",
                        getWarnItem(msg("Value is less than the recommended default of {0}",
                                        <<"8", "1", "9", "2">>))) >>,
      "yarn-site") }

InitMinMax ==
  /\ login_defs = NoFile
  /\ hosts = <<>>
  /\ \E live \in MinMaxLiveTrees : services = [services |-> <<>>, configurations |-> live]
  /\ clusterData = NoValue
  /\ configurations \in MinMaxRecommendedTrees
  /\ items \in MinMaxEarlierItems
  /\ ret = NoValue
  /\ raised = ""
  /\ pc = "start"

\* self.validateMinMax(items, recommendedDefaults, configurations)
ValidateMinMax ==
  /\ pc = "start"
  /\ \E siteOrder \in Perms(minMaxSites(services["configurations"], configurations)),
        propertyOrders \in minMaxPropertyOrders(services["configurations"], configurations) :
       LET out == validateMinMax(configurations, services["configurations"], siteOrder,
                                 propertyOrders)
       IN  items' = extend(items, out.items) /\ raised' = out.raised
  /\ pc' = "done"
  /\ UNCHANGED <<login_defs, hosts, services, clusterData, configurations, ret>>

NextMinMax == ValidateMinMax

SpecMinMax == InitMinMax /\ [][NextMinMax]_vars

\* the property of the config type has a live value, a recommended value and
\* the bound
minMaxBounded(configName, propertyName, bound) ==
  /\ configName \in DOMAIN services["configurations"]
  /\ configName \in DOMAIN configurations
  /\ propertyName \in DOMAIN services["configurations"][configName]["properties"]
  /\ propertyName \in DOMAIN configurations[configName]["properties"]
  /\ "property_attributes" \in DOMAIN configurations[configName]
  /\ propertyName \in DOMAIN configurations[configName]["property_attributes"]
  /\ bound \in DOMAIN configurations[configName]["property_attributes"][propertyName]
minMaxLive(configName, propertyName) ==
  convertToNumber(services["configurations"][configName]["properties"][propertyName])
minMaxBound(configName, propertyName, bound) ==
  convertToNumber(configurations[configName]["property_attributes"][propertyName][bound])
minMaxAllProperties ==
  UNION { DOMAIN services["configurations"][t]["properties"] :
            t \in DOMAIN services["configurations"] }

\* a is above b, for numbers as quotients
minMaxAbove(a, b) == a.num * b.den > b.num * a.den

\* the findings that are due, each as config type, property and message
minMaxDueOf(bound, text) ==
  { << x[1], x[2], text >> :
      x \in { y \in (DOMAIN services["configurations"]) \X minMaxAllProperties :
                /\ minMaxBounded(y[1], y[2], bound)
                /\ IF bound = "maximum"
                   THEN minMaxAbove(minMaxLive(y[1], y[2]), minMaxBound(y[1], y[2], bound))
                   ELSE minMaxAbove(minMaxBound(y[1], y[2], bound), minMaxLive(y[1], y[2])) } }
minMaxDue ==
  minMaxDueOf("maximum", "Value is greater than the recommended maximum of {0} ")
  \cup minMaxDueOf("minimum", "Value is less than the recommended minimum of {0} ")

minMaxKey(item) == << item["config-type"], item["config-name"], item["message"].text >>

\* C26: a sweep that returns leaves the findings of the list as they are and
\* in place, and appends one WARN for each property with a live value, a
\* recommended value and a maximum below (a minimum above) the live value, and
\* nothing else
C26_SweepOnlyAppends ==
  [][(pc = "start" /\ pc' = "done" /\ raised' = "") =>
       /\ Len(items') >= Len(items)
       /\ SubSeq(items', 1, Len(items)) = items
       /\ LET appended == SubSeq(items', Len(items) + 1, Len(items'))
          IN  /\ \A i \in 1..Len(appended) : appended[i].level = "WARN"
              /\ { minMaxKey(appended[i]) : i \in 1..Len(appended) } = minMaxDue
              /\ Len(appended) = Cardinality(minMaxDue)]_vars

\* after a finding of a validator, the sweep has appended the WARN for a
\* maximum-allocation-mb of 8193 above the maximum of 8192
C26_Witness ==
  /\ pc = "done"
  /\ raised = ""
  /\ Len(items) = 2
  /\ items[1]["config-name"] = "yarn.nodemanager.resource.memory-mb"
  /\ minMaxKey(items[2]) = << "yarn-site", "yarn.scheduler.maximum-allocation-mb",
                              "Value is greater than the recommended maximum of {0} " >>
  /\ services["configurations"]["yarn-site"]["properties"]["yarn.scheduler.maximum-allocation-mb"]
       = <<"8", "1", "9", "3">>
  /\ "yarn.scheduler.minimum-allocation-mb"
       \notin DOMAIN services["configurations"]["yarn-site"]["properties"]

\* ---------------------------------------------------------------------------
\* the allocation bounds of recommendYARNConfigurations and the container size
\* of the profile

yarnNoneChanged == services["changed-configurations"] = <<>>
yarnAllocationsWritten ==
  /\ "yarn-site" \in DOMAIN configurations
  /\ "yarn.scheduler.minimum-allocation-mb" \in DOMAIN yarnSite
  /\ "yarn.scheduler.maximum-allocation-mb" \in DOMAIN yarnSite
  /\ "yarn.nodemanager.resource.memory-mb" \in DOMAIN yarnSite

\* C27: with an empty changed-configurations list the recommended
\* yarn.scheduler.minimum-allocation-mb is at most maximum-allocation-mb, which
\* is yarn.nodemanager.resource.memory-mb, for every profile and host
C27_AllocationsOrdered ==
  (pc = "done" /\ yarnNoneChanged) =>
    /\ raised = ""
    /\ yarnAllocationsWritten
    /\ to_number(yarnSite["yarn.scheduler.minimum-allocation-mb"])
         <= to_number(yarnSite["yarn.scheduler.maximum-allocation-mb"])
    /\ yarnSite["yarn.scheduler.maximum-allocation-mb"]
         = yarnSite["yarn.nodemanager.resource.memory-mb"]

\* C27, what holds: maximum-allocation-mb is the worker memory, and
\* minimum-allocation-mb is at most that unless the NODEMANAGER host has less
\* memory than one container
C27_AllocationsWhereHostHoldsAContainer ==
  (pc = "done" /\ yarnNoneChanged) =>
    /\ raised = ""
    /\ yarnAllocationsWritten
    /\ yarnSite["yarn.scheduler.maximum-allocation-mb"]
         = yarnSite["yarn.nodemanager.resource.memory-mb"]
    /\ (\/ "referenceNodeManagerHost" \notin DOMAIN clusterData
        \/ (hosts[1].total_mem \div 1024) * clusterData.ramPerContainer.den
             >= clusterData.ramPerContainer.num)
         => to_number(yarnSite["yarn.scheduler.minimum-allocation-mb"])
              <= to_number(yarnSite["yarn.scheduler.maximum-allocation-mb"])

\* a NODEMANAGER host of 100 MB: the minimum allocation of 170 MB is above the
\* maximum allocation of 100 MB
C27_WitnessMinAboveMax ==
  /\ pc = "done"
  /\ raised = ""
  /\ yarnNoneChanged
  /\ hosts[1].total_mem = 102400
  /\ yarnAllocationsWritten
  /\ yarnSite["yarn.scheduler.minimum-allocation-mb"] = <<"1", "7", "0">>
  /\ yarnSite["yarn.scheduler.maximum-allocation-mb"] = <<"1", "0", "0">>

\* C28: in every profile ramPerContainer is at least minContainerSize
C28_ContainerAtLeastMinimum ==
  (pc = "done" /\ raised = "") =>
    clusterData.ramPerContainer.num
      >= clusterData.minContainerSize * clusterData.ramPerContainer.den

\* C28, what holds: ramPerContainer is at least minContainerSize wherever the
\* available ram holds three containers of the minimum size
C28_ContainerAtLeastMinimumOfThree ==
  (pc = "done" /\ raised = "") =>
    (clusterData.ramPerContainer.num
       >= clusterData.minContainerSize * clusterData.ramPerContainer.den)
      <=> clusterData.totalAvailableRam >= 3 * clusterData.minContainerSize

\* a host of 1 GB: 512 MB are available by the floor, the floor of 3
\* containers gives each 512 / 3 MB, below the minimum of 256 MB
C28_WitnessBelowMinimum ==
  /\ pc = "done"
  /\ raised = ""
  /\ clusterData.ram = 1
  /\ clusterData.totalAvailableRam = 512
  /\ clusterData.containers = 3
  /\ clusterData.minContainerSize = 256
  /\ clusterData.ramPerContainer = Rat(512, 3)

\* ---------------------------------------------------------------------------
\* the heap sizes of recommendAmsConfigurations against the Xmn range of
\* validateAmsHbaseEnvConfigurations

\* the heap estimates are 512, 640, ... , 512 + 128 * MaxHeapSteps
MaxHeapSteps == 60

InitHeap ==
  /\ login_defs = NoFile
  /\ hosts = <<>>
  /\ services = NoValue
  /\ \E k \in 0..MaxHeapSteps, distributed \in BOOLEAN :
       clusterData = [hbase_heapsize |-> 512 + 128 * k,
                      hbaseClusterDistributed |-> distributed]
  /\ configurations = <<>>
  /\ items = <<>>
  /\ ret = NoValue
  /\ raised = ""
  /\ pc = "start"

\* the heap sizes written for the estimate that getAmsMemoryRecommendation
\* returned
AmsHeapWrites ==
  /\ pc = "start"
  /\ ret' = amsHeapWrites(clusterData.hbaseClusterDistributed, clusterData.hbase_heapsize)
  /\ pc' = "done"
  /\ UNCHANGED <<login_defs, hosts, services, clusterData, configurations, items, raised>>

NextHeap == AmsHeapWrites

SpecHeap == InitHeap /\ [][NextHeap]_vars

\* the number written for the key of ams-hbase-env, as the validator reads it
heapWritten(key) ==
  LET w == SelectSeq(ret, LAMBDA x : x.type = "ams-hbase-env" /\ x.key = key)
  IN  to_number(strOf(w[Len(w)].value))

\* C29: in distributed mode the recommended regionserver_xmn_size is within
\* [12%, 20%] of the recommended hbase_regionserver_heapsize for every heap
\* estimate, and so is the master Xmn size of 102 for the master heap of 512
C29_RecommendedXmnInRange ==
  (pc = "done" /\ clusterData.hbaseClusterDistributed) =>
    /\ heapWritten("hbase_regionserver_heapsize") = clusterData.hbase_heapsize
    /\ ~xmnOutOfRange(heapWritten("regionserver_xmn_size"),
                      heapWritten("hbase_regionserver_heapsize"))
    /\ heapWritten("hbase_master_heapsize") = 512
    /\ heapWritten("hbase_master_xmn_size") = 102
    /\ ~xmnOutOfRange(heapWritten("hbase_master_xmn_size"),
                      heapWritten("hbase_master_heapsize"))

\* a heap of 640: 0.15 * 640 / 64 = 1.5 rounds to 2, and the Xmn size of 128
\* is exactly 20% of the heap
C29_Witness ==
  /\ pc = "done"
  /\ clusterData.hbaseClusterDistributed
  /\ clusterData.hbase_heapsize = 640
  /\ heapWritten("regionserver_xmn_size") = 128

(***************************************************************************)
(* Run-as users shared by services                                         *)
(***************************************************************************)
\* HDFS, OOZIE, HIVE and FALCON, some of them installed, the OOZIE_SERVER and
\* the HIVE_SERVER on a host or on none
SharedServiceLists ==
  { SelectSeq(<< proxyService("HDFS", "NAMENODE", <<"h1">>),
                 proxyService("OOZIE", "OOZIE_SERVER", oozieHosts),
                 proxyService("HIVE", "HIVE_SERVER", hiveHosts),
                 proxyService("FALCON", "FALCON_SERVER", <<"h1">>) >>,
              LAMBDA s : s.service_name \in installed) :
      installed \in { {"HDFS", "OOZIE", "HIVE", "FALCON"}, {"OOZIE", "HIVE", "FALCON"},
                      {"HDFS", "FALCON"} },
      oozieHosts \in { <<>>, <<"h2">> },
      hiveHosts \in { <<>>, <<"h1">> } }
\* the run-as users: names that services share, None, keys that are missing
SharedLiveTrees ==
  { ("hadoop-env" :> site(hdfs @@ group))
    @@ ("oozie-env" :> site(("oozie_user" :> oozie)))
    @@ ("hive-env" :> site(hive @@ webhcat))
    @@ ("falcon-env" :> site(("falcon_user" :> falcon))) :
      hdfs \in { <<>>, ("hdfs_user" :> <<"h", "d", "f", "s">>), ("hdfs_user" :> NoneStr) },
      group \in { <<>>, ("proxyuser_group" :> <<"u", "s", "e", "r", "s">>), ("proxyuser_group" :> NoneStr) },
      oozie \in { <<"h", "d", "f", "s">>, <<"o", "o", "z", "i", "e">>, NoneStr },
      hive \in { <<>>, ("hive_user" :> <<"h", "d", "f", "s">>), ("hive_user" :> <<"h", "i", "v", "e">>) },
      webhcat \in { <<>>, ("webhcat_user" :> <<"h", "i", "v", "e">>), ("webhcat_user" :> <<"h", "d", "f", "s">>),
                    ("webhcat_user" :> NoneStr) },
      falcon \in { <<"h", "d", "f", "s">>, <<"o", "o", "z", "i", "e">>, NoneStr } }

InitShared ==
  /\ login_defs = NoFile
  /\ hosts = ProxyHosts
  /\ \E svcs \in SharedServiceLists, live \in SharedLiveTrees :
       services = ("changed-configurations" :> <<>>)
                  @@ ("configurations" :> live) @@ ("services" :> svcs)
  /\ clusterData = NoValue
  /\ configurations = <<>>
  /\ items = <<>>
  /\ ret = NoValue
  /\ raised = ""
  /\ pc = "start"

SpecShared == InitShared /\ [][NextProxy]_vars

sharedInstalled(serviceName) ==
  \E i \in 1..Len(services["services"]) : services["services"][i].service_name = serviceName
sharedValue(configType, key) ==
  IF /\ configType \in DOMAIN services["configurations"]
     /\ key \in DOMAIN services["configurations"][configType]["properties"]
  THEN services["configurations"][configType]["properties"][key]
  ELSE NoneStr
sharedKey(configType, key) ==
  key \in DOMAIN services["configurations"][configType]["properties"]
\* the name of the first inventory host that holds the component, None if
\* no host does
sharedServerHost(serviceName, componentName) ==
  LET held == { i \in 1..Len(hosts) :
                  \E s \in Range(services["services"]) :
                    /\ s.service_name = serviceName
                    /\ \E c \in Range(s.components) :
                         /\ c.component_name = componentName
                         /\ hosts[i].host_name \in Range(c.hostnames) }
  IN  IF held = {} THEN NoneStr
      ELSE hostNameChars[hosts[CHOOSE i \in held : \A j \in held : i <= j].public_host_name]
\* the five run-as users in the order HDFS, OOZIE, HIVE (hive_user,
\* webhcat_user), FALCON, each with the scope its service gives it: set tells
\* that the service is installed and the user and the group it needs are set,
\* placed that the server whose host is the scope is on a host and, for HIVE,
\* that both of its user keys are there
sharedCandidates ==
  LET group == sharedValue("hadoop-env", "proxyuser_group")
      hive == sharedKey("hive-env", "hive_user") /\ sharedKey("hive-env", "webhcat_user")
  IN  << [name |-> sharedValue("hadoop-env", "hdfs_user"), propertyHosts |-> <<"*">>,
          propertyGroups |-> <<"*">>,
          set |-> sharedInstalled("HDFS") /\ sharedValue("hadoop-env", "hdfs_user") # NoneStr,
          placed |-> TRUE],
         [name |-> sharedValue("oozie-env", "oozie_user"),
          propertyHosts |-> sharedServerHost("OOZIE", "OOZIE_SERVER"),
          propertyGroups |-> <<"*">>,
          set |-> sharedInstalled("OOZIE") /\ sharedValue("oozie-env", "oozie_user") # NoneStr,
          placed |-> sharedServerHost("OOZIE", "OOZIE_SERVER") # NoneStr],
         [name |-> sharedValue("hive-env", "hive_user"),
          propertyHosts |-> sharedServerHost("HIVE", "HIVE_SERVER"),
          propertyGroups |-> <<"*">>,
          set |-> sharedInstalled("HIVE") /\ sharedValue("hive-env", "hive_user") # NoneStr,
          placed |-> hive /\ sharedServerHost("HIVE", "HIVE_SERVER") # NoneStr],
         [name |-> sharedValue("hive-env", "webhcat_user"),
          propertyHosts |-> sharedServerHost("HIVE", "HIVE_SERVER"),
          propertyGroups |-> group,
          set |-> /\ sharedInstalled("HIVE") /\ group # NoneStr
                  /\ sharedValue("hive-env", "webhcat_user") # NoneStr,
          placed |-> hive /\ sharedServerHost("HIVE", "HIVE_SERVER") # NoneStr],
         [name |-> sharedValue("falcon-env", "falcon_user"), propertyHosts |-> <<"*">>,
          propertyGroups |-> group,
          set |-> /\ sharedInstalled("FALCON") /\ group # NoneStr
                  /\ sharedValue("falcon-env", "falcon_user") # NoneStr,
          placed |-> TRUE] >>
\* core-site holds the pairs of the given users and no other property, and
\* the pair of a name is the scope of the first of them with that name
sharedFirstWins(users) ==
  LET properties == configurations["core-site"]["properties"]
  IN  /\ DOMAIN properties =
           UNION { { proxyHosts(u.name), proxyGroups(u.name) } : u \in Range(users) }
      /\ \A i \in 1..Len(users) :
           (\A j \in 1..(i - 1) : users[j].name # users[i].name) =>
             /\ properties[proxyHosts(users[i].name)] = users[i].propertyHosts
             /\ properties[proxyGroups(users[i].name)] = users[i].propertyGroups

\* C30 as stated: every installed service whose user and required group are
\* set contributes, and the hosts/groups pair of a name is the one of the
\* first such service in the order HDFS, OOZIE, HIVE (hive_user, then
\* webhcat_user), FALCON.
C30_FirstServiceWinsAsClaimed ==
  (pc = "done" /\ raised = "") =>
    sharedFirstWins(SelectSeq(sharedCandidates, LAMBDA u : u.set))

\* C30: core-site gets exactly one hosts/groups pair for each name, the one of
\* the first service in the order HDFS, OOZIE, HIVE (hive_user, then
\* webhcat_user), FALCON among those that contribute; a later service does
\* not overwrite it. A service contributes when it is installed, its user and
\* the group it needs are set and, for OOZIE and HIVE, its server is on a
\* host and, for HIVE, both user keys are there.
C30_FirstPlacedServiceWins ==
  (pc = "done" /\ raised = "") =>
    sharedFirstWins(SelectSeq(sharedCandidates, LAMBDA u : u.set /\ u.placed))

\* hdfs is the user of HDFS, OOZIE, HIVE and FALCON: the pair is the one of HDFS
C30_WitnessShared ==
  /\ pc = "done"
  /\ raised = ""
  /\ Len(services["services"]) = 4
  /\ sharedValue("hadoop-env", "hdfs_user") = <<"h", "d", "f", "s">>
  /\ sharedValue("oozie-env", "oozie_user") = <<"h", "d", "f", "s">>
  /\ sharedValue("hive-env", "hive_user") = <<"h", "d", "f", "s">>
  /\ sharedValue("falcon-env", "falcon_user") = <<"h", "d", "f", "s">>
  /\ sharedValue("hadoop-env", "proxyuser_group") = <<"u", "s", "e", "r", "s">>
  /\ sharedServerHost("OOZIE", "OOZIE_SERVER") = <<"h", "2">>
  /\ sharedServerHost("HIVE", "HIVE_SERVER") = <<"h", "1">>
  /\ sharedKey("hive-env", "webhcat_user")
  /\ configurations["core-site"]["properties"]["hadoop.proxyuser.hdfs.hosts"] = <<"*">>
  /\ configurations["core-site"]["properties"]["hadoop.proxyuser.hdfs.groups"] = <<"*">>

\* oozie is the user of OOZIE, whose server is on no host, and of FALCON: the
\* pair is the one of FALCON
C30_WitnessNoServerHost ==
  /\ pc = "done"
  /\ raised = ""
  /\ sharedInstalled("OOZIE")
  /\ sharedValue("oozie-env", "oozie_user") = <<"o", "o", "z", "i", "e">>
  /\ sharedServerHost("OOZIE", "OOZIE_SERVER") = NoneStr
  /\ sharedValue("falcon-env", "falcon_user") = <<"o", "o", "z", "i", "e">>
  /\ sharedValue("hadoop-env", "proxyuser_group") = <<"u", "s", "e", "r", "s">>
  /\ configurations["core-site"]["properties"]["hadoop.proxyuser.oozie.hosts"] = <<"*">>
  /\ configurations["core-site"]["properties"]["hadoop.proxyuser.oozie.groups"] = <<"u", "s", "e", "r", "s">>

====
